---- MODULE Spec2Model ----
(***************************************************************************)
(* A model of the JSONLParse transform stream of jsonl-parse               *)
(* (src/src/parser/parser.ts), of its converter streams JSONLToJSON,       *)
(* JSONToJSONL and CSVToJSONL and of the JSONLValidator stream.  Text is   *)
(* a sequence of one-character strings; the stream's input is a sequence   *)
(* of bytes that _transform decodes chunk by chunk.                        *)
(***************************************************************************)
EXTENDS Integers, Sequences, FiniteSets, TLC

VARIABLES
  options,          \* the option fields set by the constructor (never reassigned)
  input,            \* the bytes the driver will write to the stream
  pos,              \* how many of them have been written so far
  buffer,           \* this.buffer
  context,          \* this.context: lines, records, invalid_field_length
  headerColumns,    \* this.headerColumns: [null, names]
  headerProcessed,  \* this.headerProcessed
  pushed,           \* the values handed to this.push, in order
  skipCalls,        \* the calls made to options.on_skip, in order
  recordCalls,      \* the calls made to options.on_record, in order
  columnsCalls,     \* the values a columns function was called with, in order
  decodeCalls,      \* the texts handed to JSON.parse, in order
  error,            \* the error handed to callback(error), "none" if none
  phase,            \* "open", "ended" (after _flush) or "errored"
  twin,             \* the fields of a second JSONLParse built with the same options
  converter         \* the fields of a converter stream, <<>> when the run has none

vars == <<options, input, pos, buffer, context, headerColumns, headerProcessed,
          pushed, skipCalls, recordCalls, columnsCalls, decodeCalls, error, phase, twin,
          converter>>

----------------------------------------------------------------------------
(* Characters and bytes *)

LF == "\n"
CR == "\r"
SP == " "
QUOTE == "'"      \* stands for the double quote character
LEAD == "C3"      \* first byte of a two-byte UTF-8 sequence
CONT == "A9"      \* its continuation byte
EACUTE == "E9"    \* the character the two bytes encode
FFFD == "FFFD"    \* the replacement character of a malformed sequence

\* Number.MAX value stand-in for Infinity: larger than any length, and
\* Infinity * 10 is still Infinity for every comparison made.
Infinity == 100000000

\* the factor of the buffer guard, `this.maxLineLength * 10`
BufferFactor == 10

Min(a, b) == IF a < b THEN a ELSE b

\* chunk.toString('utf8'): complete two-byte sequences decode to their
\* character, every byte of an incomplete or stray sequence to U+FFFD.
RECURSIVE ChunkToString(_)
ChunkToString(bytes) ==
  IF bytes = <<>> THEN <<>>
  ELSE IF bytes[1] = LEAD
    THEN IF Len(bytes) >= 2 /\ bytes[2] = CONT
           THEN <<EACUTE>> \o ChunkToString(SubSeq(bytes, 3, Len(bytes)))
           ELSE <<FFFD>> \o ChunkToString(Tail(bytes))
  ELSE IF bytes[1] = CONT THEN <<FFFD>> \o ChunkToString(Tail(bytes))
  ELSE <<bytes[1]>> \o ChunkToString(Tail(bytes))

\* String.prototype.split(/\r?\n/), scanning from index i with the current
\* segment cur: always returns at least one segment.
RECURSIVE SplitFrom(_, _, _)
SplitFrom(s, i, cur) ==
  IF i > Len(s) THEN <<cur>>
  ELSE IF s[i] = LF THEN <<cur>> \o SplitFrom(s, i + 1, <<>>)
  ELSE IF s[i] = CR /\ i < Len(s) /\ s[i + 1] = LF
    THEN <<cur>> \o SplitFrom(s, i + 2, <<>>)
  ELSE SplitFrom(s, i + 1, Append(cur, s[i]))

Split(s) == SplitFrom(s, 1, <<>>)

\* the characters \s matches and String.prototype.trim removes
IsSpace(c) == c \in {SP, CR, LF}

RECURSIVE TrimStart(_)
TrimStart(s) == IF s # <<>> /\ IsSpace(s[1]) THEN TrimStart(Tail(s)) ELSE s

RECURSIVE TrimEnd(_)
TrimEnd(s) ==
  IF s # <<>> /\ IsSpace(s[Len(s)]) THEN TrimEnd(SubSeq(s, 1, Len(s) - 1)) ELSE s

Trim(s) == TrimEnd(TrimStart(s))

----------------------------------------------------------------------------
(* JSON values.  Every value is a record of the same shape: t is the type, *)
(* n the number (or 1/0 for true/false), s the characters of a string,    *)
(* e the elements of an array or the member values of an object, k the    *)
(* member names of an object.                                              *)

Num(n) == [t |-> "number", n |-> n, s |-> <<>>, e |-> <<>>, k |-> <<>>]
Str(s) == [t |-> "string", n |-> 0, s |-> s, e |-> <<>>, k |-> <<>>]
Bool(b) == [t |-> "boolean", n |-> IF b THEN 1 ELSE 0, s |-> <<>>, e |-> <<>>, k |-> <<>>]
Null == [t |-> "null", n |-> 0, s |-> <<>>, e |-> <<>>, k |-> <<>>]
Undefined == [t |-> "undefined", n |-> 0, s |-> <<>>, e |-> <<>>, k |-> <<>>]
Arr(e) == [t |-> "array", n |-> 0, s |-> <<>>, e |-> e, k |-> <<>>]
Obj(k, e) == [t |-> "object", n |-> 0, s |-> <<>>, e |-> e, k |-> k]

IsArray(v) == v.t = "array"
IsObject(v) == v.t = "object"

KeyIndex(keys, key) ==
  IF \E i \in 1..Len(keys) : keys[i] = key
    THEN CHOOSE i \in 1..Len(keys) : keys[i] = key
    ELSE 0

\* obj[key] = val where i is the place of key among the members (0: none)
ObjSetAt(obj, key, val, i) ==
  IF i = 0 THEN Obj(Append(obj.k, key), Append(obj.e, val))
  ELSE Obj(obj.k, [obj.e EXCEPT ![i] = val])

\* obj[key] = val: an existing member keeps its place, a new one is appended
ObjSet(obj, key, val) == ObjSetAt(obj, key, val, KeyIndex(obj.k, key))

DigitChars == <<"0", "1", "2", "3", "4", "5", "6", "7", "8", "9">>
IsDigit(c) == \E d \in 1..10 : DigitChars[d] = c
DigitVal(c) == (CHOOSE d \in 1..10 : DigitChars[d] = c) - 1

\* String(n) for a non-negative integer
RECURSIVE NumToString(_)
NumToString(n) ==
  IF n < 10 THEN <<DigitChars[n + 1]>>
  ELSE NumToString(n \div 10) \o <<DigitChars[(n % 10) + 1]>>

\* JSON whitespace
IsJsonWs(c) == c \in {SP, CR, LF}

RECURSIVE SkipWs(_, _)
SkipWs(s, i) == IF i <= Len(s) /\ IsJsonWs(s[i]) THEN SkipWs(s, i + 1) ELSE i

Fail == [ok |-> FALSE, val |-> Null, i |-> 0]
Ok(v, i) == [ok |-> TRUE, val |-> v, i |-> i]

\* digits from i on, accumulated into acc
RECURSIVE ParseDigits(_, _, _)
ParseDigits(s, i, acc) ==
  IF i <= Len(s) /\ IsDigit(s[i])
    THEN ParseDigits(s, i + 1, acc * 10 + DigitVal(s[i]))
    ELSE Ok(Num(acc), i)

\* an unsigned integer without a leading zero
ParseNumber(s, i) ==
  IF s[i] = "0" THEN
    IF i < Len(s) /\ IsDigit(s[i + 1]) THEN Fail ELSE Ok(Num(0), i + 1)
  ELSE ParseDigits(s, i, 0)

\* the characters of a string up to its closing quote; control characters
\* (CR, LF) are not allowed inside a string
RECURSIVE ParseChars(_, _, _)
ParseChars(s, i, acc) ==
  IF i > Len(s) THEN Fail
  ELSE IF s[i] = QUOTE THEN Ok(Str(acc), i + 1)
  ELSE IF s[i] \in {CR, LF} THEN Fail
  ELSE ParseChars(s, i + 1, Append(acc, s[i]))

HasWord(s, i, w) == i + Len(w) - 1 <= Len(s) /\ SubSeq(s, i, i + Len(w) - 1) = w

RECURSIVE ParseValue(_, _)
RECURSIVE ParseElements(_, _, _)
RECURSIVE ParseMembers(_, _, _)

\* after an element: ] ends the array, a comma brings the next element
ElementEnd(s, j, acc) ==
  IF j > Len(s) THEN Fail
  ELSE IF s[j] = "]" THEN Ok(Arr(acc), j + 1)
  ELSE IF s[j] = "," THEN ParseElements(s, SkipWs(s, j + 1), acc)
  ELSE Fail

AfterElement(s, v, acc) ==
  IF ~v.ok THEN Fail ELSE ElementEnd(s, SkipWs(s, v.i), Append(acc, v.val))

\* value (, value)* ] with the first value starting at i
ParseElements(s, i, acc) == AfterElement(s, ParseValue(s, i), acc)

\* after a member: } ends the object, a comma brings the next member
MemberEnd(s, j, obj) ==
  IF j > Len(s) THEN Fail
  ELSE IF s[j] = "}" THEN Ok(obj, j + 1)
  ELSE IF s[j] = "," THEN ParseMembers(s, SkipWs(s, j + 1), obj)
  ELSE Fail

AfterMember(s, key, v, acc) ==
  IF ~v.ok THEN Fail ELSE MemberEnd(s, SkipWs(s, v.i), ObjSet(acc, key, v.val))

AfterColon(s, key, c, acc) ==
  IF c > Len(s) \/ s[c] # ":" THEN Fail
  ELSE AfterMember(s, key, ParseValue(s, SkipWs(s, c + 1)), acc)

AfterName(s, name, acc) ==
  IF ~name.ok THEN Fail ELSE AfterColon(s, name.val.s, SkipWs(s, name.i), acc)

\* "name" : value (, "name" : value)* } with the first name starting at i
ParseMembers(s, i, acc) ==
  IF i > Len(s) \/ s[i] # QUOTE THEN Fail
  ELSE AfterName(s, ParseChars(s, i + 1, <<>>), acc)

\* [ at i: an empty array, or elements from j on
ParseArray(s, j) ==
  IF j <= Len(s) /\ s[j] = "]" THEN Ok(Arr(<<>>), j + 1) ELSE ParseElements(s, j, <<>>)

\* { at i: an empty object, or members from j on
ParseObject(s, j) ==
  IF j <= Len(s) /\ s[j] = "}" THEN Ok(Obj(<<>>, <<>>), j + 1)
  ELSE ParseMembers(s, j, Obj(<<>>, <<>>))

\* a value starting at i (whitespace already skipped)
ParseValue(s, i) ==
  IF i > Len(s) THEN Fail
  ELSE IF IsDigit(s[i]) THEN ParseNumber(s, i)
  ELSE IF s[i] = QUOTE THEN ParseChars(s, i + 1, <<>>)
  ELSE IF HasWord(s, i, <<"n", "u", "l", "l">>) THEN Ok(Null, i + 4)
  ELSE IF HasWord(s, i, <<"t", "r", "u", "e">>) THEN Ok(Bool(TRUE), i + 4)
  ELSE IF HasWord(s, i, <<"f", "a", "l", "s", "e">>) THEN Ok(Bool(FALSE), i + 5)
  ELSE IF s[i] = "[" THEN ParseArray(s, SkipWs(s, i + 1))
  ELSE IF s[i] = "{" THEN ParseObject(s, SkipWs(s, i + 1))
  ELSE Fail

\* nothing but whitespace may follow the value
WholeText(text, v) == IF v.ok /\ SkipWs(text, v.i) > Len(text) THEN v ELSE Fail

\* JSON.parse(text): one value with optional whitespace around it, for the
\* JSON built of unsigned integers, strings without escapes, null, true,
\* false, arrays and objects; ok = FALSE is the SyntaxError it throws.
JSONParse(text) == WholeText(text, ParseValue(text, SkipWs(text, 1)))

----------------------------------------------------------------------------
(* The parser object.  An operator takes the option record o and the      *)
(* object's fields as the record self, and returns the fields after it.   *)

\* the fields after the constructor has run
NewParser ==
  [buffer |-> <<>>,
   context |-> [lines |-> 0, records |-> 0, invalid_field_length |-> 0],
   headerColumns |-> [null |-> TRUE, names |-> <<>>],
   headerProcessed |-> FALSE,
   pushed |-> <<>>,
   skipCalls |-> <<>>,
   recordCalls |-> <<>>,
   columnsCalls |-> <<>>,
   decodeCalls |-> <<>>,
   error |-> "none"]

\* the options of `new JSONLParse()`: 0 is an unset (falsy) number option
DefaultOptions ==
  [strict |-> TRUE,
   skipEmptyLines |-> TRUE,
   maxLineLength |-> Infinity,
   columns |-> [kind |-> "none", names |-> <<>>],
   from |-> 0,
   to |-> 0,
   from_line |-> 0,
   to_line |-> 0,
   cast |-> "none",
   cast_date |-> "none",
   ltrim |-> FALSE,
   rtrim |-> FALSE,
   trim |-> FALSE,
   on_record |-> "none",
   on_skip |-> FALSE,
   info |-> FALSE,
   raw |-> FALSE,
   objname |-> <<>>,
   skip_records_with_empty_values |-> FALSE,
   skip_records_with_error |-> FALSE]

\* `options.maxLineLength || Infinity`
MaxLineLengthOption(n) == IF n = 0 THEN Infinity ELSE n

TrimValue(o, value) ==
  IF o.trim THEN Trim(value)
  ELSE IF o.ltrim /\ o.rtrim THEN Trim(value)
  ELSE IF o.ltrim THEN TrimStart(value)
  ELSE IF o.rtrim THEN TrimEnd(value)
  ELSE value

W_null == <<"n", "u", "l", "l">>
W_true == <<"t", "r", "u", "e">>
W_false == <<"f", "a", "l", "s", "e">>
W_undefined == <<"u", "n", "d", "e", "f", "i", "n", "e", "d">>
W_object == <<"[", "o", "b", "j", "e", "c", "t", " ", "O", "b", "j", "e", "c", "t", "]">>
K_info == <<"i", "n", "f", "o">>
K_raw == <<"r", "a", "w">>
K_record == <<"r", "e", "c", "o", "r", "d">>
K_lines == <<"l", "i", "n", "e", "s">>
K_records == <<"r", "e", "c", "o", "r", "d", "s">>
K_invalid == <<"i", "n", "v", "a", "l", "i", "d", "_", "f", "i", "e", "l", "d", "_",
               "l", "e", "n", "g", "t", "h">>

\* String(v), as the header mapping record.map(String) applies it
RECURSIVE JSString(_)
RECURSIVE JoinElements(_, _)
JSString(v) ==
  CASE v.t = "number" -> NumToString(v.n)
    [] v.t = "string" -> v.s
    [] v.t = "boolean" -> IF v.n = 1 THEN W_true ELSE W_false
    [] v.t = "null" -> W_null
    [] v.t = "undefined" -> W_undefined
    [] v.t = "array" -> JoinElements(v.e, 1)
    [] OTHER -> W_object

\* Array.prototype.join(','): null and undefined elements give ''
JoinElements(e, i) ==
  IF i > Len(e) THEN <<>>
  ELSE (IF e[i].t \in {"null", "undefined"} THEN <<>> ELSE JSString(e[i]))
       \o (IF i < Len(e) THEN <<",">> ELSE <<>>)
       \o JoinElements(e, i + 1)

\* the forEach loops of processRecord that build obj from names and an
\* array record; onlyStrings is the `typeof col === 'string'` test that the
\* explicit-list branch makes.  names are values; obj[col] uses String(col).
RECURSIVE ZipColumns(_, _, _, _, _)
ZipColumns(names, record, idx, obj, onlyStrings) ==
  IF idx > Len(names) THEN obj
  ELSE IF onlyStrings /\ names[idx].t # "string"
    THEN ZipColumns(names, record, idx + 1, obj, onlyStrings)
  ELSE ZipColumns(names, record, idx + 1,
         ObjSet(obj, JSString(names[idx]),
                IF idx <= Len(record.e) /\ record.e[idx].t # "undefined"
                  THEN record.e[idx] ELSE Null),
         onlyStrings)

\* { ...this.context } as a value
ContextValue(c) ==
  Obj(<<K_lines, K_records, K_invalid>>,
      <<Num(c.lines), Num(c.records), Num(c.invalid_field_length)>>)

\* JavaScript truthiness
Truthy(v) ==
  CASE v.t = "number" -> v.n # 0
    [] v.t = "string" -> v.s # <<>>
    [] v.t = "boolean" -> v.n = 1
    [] v.t \in {"null", "undefined"} -> FALSE
    [] OTHER -> TRUE

NaN == [nan |-> TRUE, n |-> 0]
Finite(n) == [nan |-> FALSE, n |-> n]

\* Number(text) for trimmed text: '' is 0, an unsigned decimal integer is
\* its value, anything else NaN
TrimmedToNumber(t) ==
  IF t = <<>> THEN Finite(0)
  ELSE IF \A i \in 1..Len(t) : IsDigit(t[i]) THEN Finite(ParseDigits(t, 1, 0).val.n)
  ELSE NaN

\* Number(v)
JSNumber(v) ==
  CASE v.t = "number" -> Finite(v.n)
    [] v.t = "boolean" -> Finite(v.n)
    [] v.t = "null" -> Finite(0)
    [] v.t \in {"string", "array"} -> TrimmedToNumber(Trim(JSString(v)))
    [] OTHER -> NaN

\* a cast or cast_date function supplied by the caller, by name:
\* "tag" returns the string 'x' for every value, "same" the value itself,
\* "mark" the value itself after writing to its context argument
CastHook(fn, value, ctx) == IF fn = "tag" THEN Str(<<"x">>) ELSE value

\* the object a caller's function was handed as context, after the call:
\* "mark" adds one to its invalid_field_length, the other functions leave
\* it alone
HookContext(fn, ctx) ==
  IF fn = "mark" THEN [ctx EXCEPT !.invalid_field_length = @ + 1] ELSE ctx

\* Date.parse(text) is a date: here the four-digit year form 'YYYY'
IsDateText(text) == Len(text) = 4 /\ \A i \in 1..4 : IsDigit(text[i])

\* new Date(v)
DateOf(v) == [t |-> "date", n |-> 0, s |-> JSString(v), e |-> <<>>, k |-> <<>>]

\* castValue: the cast_date branches
CastDate(o, value, ctx) ==
  IF o.cast_date = "true" /\ Truthy(value) /\ IsDateText(JSString(value)) THEN DateOf(value)
  ELSE IF o.cast_date \notin {"none", "true"} THEN CastHook(o.cast_date, value, ctx)
  ELSE value

\* castValue with cast === true, number being Number(value)
CastTrue(o, value, ctx, number) ==
  IF value = Str(<<>>) THEN value
  ELSE IF value = Str(W_true) THEN Bool(TRUE)
  ELSE IF value = Str(W_false) THEN Bool(FALSE)
  ELSE IF value = Str(W_null) THEN Null
  ELSE IF value = Str(W_undefined) THEN Undefined
  ELSE IF ~number.nan THEN Num(number.n)
  ELSE CastDate(o, value, ctx)

CastValue(o, value, ctx) ==
  IF o.cast = "true" THEN CastTrue(o, value, ctx, JSNumber(value))
  ELSE IF o.cast # "none" THEN CastHook(o.cast, value, ctx)
  ELSE CastDate(o, value, ctx)

\* castValue with cast === true or unset goes on to the cast_date branches
FallsThrough(o, value) ==
  \/ o.cast = "none"
  \/ /\ o.cast = "true"
     /\ value \notin {Str(<<>>), Str(W_true), Str(W_false), Str(W_null), Str(W_undefined)}
     /\ JSNumber(value).nan

\* castValue(value, context): the context object after the call
CastValueContext(o, value, ctx) ==
  IF o.cast \notin {"none", "true"} THEN HookContext(o.cast, ctx)
  ELSE IF FallsThrough(o, value) /\ o.cast_date \notin {"none", "true"}
    THEN HookContext(o.cast_date, ctx)
  ELSE ctx

\* the on_record function supplied by the caller, by name: "keep" returns
\* the record, "evenLines" returns null on odd lines, "wrap" returns [record]
OnRecordHook(fn, record, ctx) ==
  CASE fn = "evenLines" -> IF ctx.lines % 2 = 0 THEN record ELSE Null
    [] fn = "wrap" -> Arr(<<record>>)
    [] OTHER -> record

\* the columns function supplied by the caller: the elements of an array
\* record as names, no names for any other record
ColumnsHook(record) ==
  IF IsArray(record) THEN [i \in 1..Len(record.e) |-> JSString(record.e[i])] ELSE <<>>

IsEmptyValue(v) == v.t \in {"null", "undefined"} \/ v = Str(<<>>)

\* record[name] for an object or array record
Member(record, name) ==
  IF IsObject(record) THEN
    IF KeyIndex(record.k, name) # 0 THEN record.e[KeyIndex(record.k, name)] ELSE Undefined
  ELSE IF IsArray(record) /\ \E i \in 1..Len(record.e) : NumToString(i - 1) = name
    THEN record.e[CHOOSE i \in 1..Len(record.e) : NumToString(i - 1) = name]
  ELSE Undefined

StrNames(names) == [i \in 1..Len(names) |-> Str(names[i])]

\* MapColumns with the elements taken one place further on
MapColumnsShifted(o, self, record) ==
  IF IsArray(record) /\ (o.columns.kind = "list" \/ ~self.headerColumns.null)
    THEN ZipColumns(IF o.columns.kind = "list" THEN o.columns.names
                    ELSE StrNames(self.headerColumns.names),
                    Arr(SubSeq(record.e, 2, Len(record.e))), 1, Obj(<<>>, <<>>), o.columns.kind = "list")
    ELSE record

\* processRecord, after the header branches: the column mapping.  An array
\* record is zipped with the explicit list, or with the learned header.
MapColumns(o, self, record) ==
  IF IsArray(record) /\ (o.columns.kind = "list" \/ ~self.headerColumns.null)
    THEN ZipColumns(IF o.columns.kind = "list" THEN o.columns.names
                    ELSE StrNames(self.headerColumns.names),
                    record, 1, Obj(<<>>, <<>>), o.columns.kind = "list")
    ELSE record

\* processRecord: the casting step
CastRecord(o, self, record) ==
  IF o.cast # "none" \/ o.cast_date # "none" THEN
    IF IsArray(record) \/ IsObject(record)
      THEN [record EXCEPT !.e = [i \in 1..Len(record.e) |-> CastValue(o, record.e[i], self.context)]]
    ELSE CastValue(o, record, self.context)
  ELSE record

\* processRecord: this.context after the casting step, which hands it to
\* castValue for the values from index i on
RECURSIVE CastContextFrom(_, _, _, _)
CastContextFrom(o, values, i, ctx) ==
  IF i > Len(values) THEN ctx
  ELSE CastContextFrom(o, values, i + 1, CastValueContext(o, values[i], ctx))

CastContext(o, record, ctx) ==
  IF o.cast # "none" \/ o.cast_date # "none" THEN
    IF IsArray(record) \/ IsObject(record) THEN CastContextFrom(o, record.e, 1, ctx)
    ELSE CastValueContext(o, record, ctx)
  ELSE ctx

\* IsEmptyRecord with `some` in the place of `every`
IsEmptyRecordSome(record) ==
  IF IsArray(record) \/ IsObject(record)
    THEN \E i \in 1..Len(record.e) : IsEmptyValue(record.e[i])
    ELSE IsEmptyValue(record)

\* processRecord: the skip_records_with_empty_values test
IsEmptyRecord(record) ==
  IF IsArray(record) \/ IsObject(record)
    THEN \A i \in 1..Len(record.e) : IsEmptyValue(record.e[i])
    ELSE IsEmptyValue(record)

\* processRecord: the { info, raw, record } wrapper
Enrich(o, self, record, originalLine) ==
  IF o.info \/ o.raw THEN
    Obj((IF o.info THEN <<K_info>> ELSE <<>>) \o (IF o.raw THEN <<K_raw>> ELSE <<>>)
          \o <<K_record>>,
        (IF o.info THEN <<ContextValue(self.context)>> ELSE <<>>)
          \o (IF o.raw THEN <<Str(originalLine)>> ELSE <<>>) \o <<record>>)
  ELSE record

\* processRecord: the objname step, key being record[this.objname]
KeyBy(o, self, record, originalLine, key) ==
  IF o.objname # <<>> /\ (IsObject(record) \/ IsArray(record)) /\ Truthy(key)
    THEN Obj(<<JSString(key)>>, <<record>>)
    ELSE Enrich(o, self, record, originalLine)

\* processRecord: the output built from the record
Shape(o, self, record, originalLine) ==
  KeyBy(o, self, record, originalLine, Member(record, o.objname))

Discard(self) == [self |-> self, out |-> Null]

\* processRecord: after on_record returned result
AfterOnRecord(o, self, result, originalLine) ==
  IF result.t \in {"null", "undefined"} THEN Discard(self)
  ELSE [self |-> self, out |-> Shape(o, self, result, originalLine)]

\* FilterRecord with on_record called before the empty-value test
FilterRecordHookFirst(o, self, record, originalLine) ==
  IF o.on_record # "none" THEN
    AfterOnRecord(o,
      [self EXCEPT !.recordCalls = Append(@, [record |-> record, context |-> self.context])],
      OnRecordHook(o.on_record, record, self.context), originalLine)
  ELSE IF o.skip_records_with_empty_values /\ IsEmptyRecord(record) THEN Discard(self)
  ELSE AfterOnRecord(o, self, record, originalLine)

\* processRecord: from the empty-value test on
FilterRecord(o, self, record, originalLine) ==
  IF o.skip_records_with_empty_values /\ IsEmptyRecord(record) THEN Discard(self)
  ELSE IF o.on_record # "none" THEN
    AfterOnRecord(o,
      [self EXCEPT !.recordCalls = Append(@, [record |-> record, context |-> self.context])],
      OnRecordHook(o.on_record, record, self.context), originalLine)
  ELSE AfterOnRecord(o, self, record, originalLine)

\* processRecord: from the casting step on, record being the mapped record
CastStep(o, self, record, originalLine) ==
  FilterRecord(o, [self EXCEPT !.context = CastContext(o, record, @)],
               CastRecord(o, self, record), originalLine)

\* ProcessRecord with the first record consumed under an explicit list too
ProcessRecordListHeader(o, self, parsed, originalLine) ==
  IF o.columns.kind \in {"true", "list"} /\ ~self.headerProcessed THEN
    Discard([self EXCEPT !.headerProcessed = TRUE])
  ELSE CastStep(o, self, MapColumns(o, self, parsed), originalLine)

\* ProcessRecord with a columns function that is asked for the second
\* decoded value as well
ProcessRecordRelearns(o, self, parsed, originalLine) ==
  IF o.columns.kind = "true" /\ ~self.headerProcessed THEN
    Discard([self EXCEPT
      !.headerColumns =
        IF IsArray(parsed)
          THEN [null |-> FALSE, names |-> [i \in 1..Len(parsed.e) |-> JSString(parsed.e[i])]]
        ELSE IF IsObject(parsed) THEN [null |-> FALSE, names |-> parsed.k]
        ELSE @,
      !.headerProcessed = TRUE])
  ELSE IF o.columns.kind = "fn" /\ Len(self.columnsCalls) < 2 THEN
    Discard([self EXCEPT
      !.headerColumns = [null |-> FALSE, names |-> ColumnsHook(parsed)],
      !.columnsCalls = Append(@, parsed),
      !.headerProcessed = TRUE])
  ELSE CastStep(o, self, MapColumns(o, self, parsed), originalLine)

\* processRecord(parsed, originalLine): the fields after the call and the
\* value it returned (Null where it returns null)
ProcessRecord(o, self, parsed, originalLine) ==
  IF o.columns.kind = "true" /\ ~self.headerProcessed THEN
    Discard([self EXCEPT
      !.headerColumns =
        IF IsArray(parsed)
          THEN [null |-> FALSE, names |-> [i \in 1..Len(parsed.e) |-> JSString(parsed.e[i])]]
        ELSE IF IsObject(parsed) THEN [null |-> FALSE, names |-> parsed.k]
        ELSE @,
      !.headerProcessed = TRUE])
  ELSE IF o.columns.kind = "fn" /\ ~self.headerProcessed THEN
    Discard([self EXCEPT
      !.headerColumns = [null |-> FALSE, names |-> ColumnsHook(parsed)],
      !.columnsCalls = Append(@, parsed),
      !.headerProcessed = TRUE])
  ELSE CastStep(o, self, MapColumns(o, self, parsed), originalLine)

----------------------------------------------------------------------------
(* _transform and _flush *)

Continue(self) == [ctl |-> "continue", self |-> self]
Break(self) == [ctl |-> "break", self |-> self]
Return(self) == [ctl |-> "return", self |-> self]

OnSkip(self, kind, line) ==
  [self EXCEPT !.skipCalls = Append(@, [error |-> kind, line |-> line])]

\* TransformWindow with `<=` in the test of from
TransformWindowFromInclusive(o, self, out) ==
  IF o.from # 0 /\ self.context.records <= o.from THEN Continue(self)
  ELSE IF o.to # 0 /\ self.context.records > o.to THEN Break(self)
  ELSE Continue([self EXCEPT !.pushed = Append(@, out)])

\* _transform: the record window, after this.context.records++
TransformWindow(o, self, out) ==
  IF o.from # 0 /\ self.context.records < o.from THEN Continue(self)
  ELSE IF o.to # 0 /\ self.context.records > o.to THEN Break(self)
  ELSE Continue([self EXCEPT !.pushed = Append(@, out)])

\* _transform: after processRecord returned
TransformProcessed(o, processed) ==
  IF processed.out = Null THEN Continue(processed.self)
  ELSE TransformWindow(o, [processed.self EXCEPT !.context.records = @ + 1], processed.out)

\* TransformParsed with the catch block ending in `continue` whatever strict is
TransformParsedNeverRaises(o, self, line, parsed) ==
  IF ~parsed.ok THEN
    IF o.on_skip THEN Continue(OnSkip(self, "invalid_json", line))
    ELSE Continue(self)
  ELSE TransformProcessed(o, ProcessRecord(o, self, parsed.val, line))

\* _transform: after JSON.parse(line), the catch block when it threw
TransformParsed(o, self, line, parsed) ==
  IF ~parsed.ok THEN
    IF o.on_skip THEN Continue(OnSkip(self, "invalid_json", line))
    ELSE IF o.skip_records_with_error THEN Continue(self)
    ELSE IF o.strict THEN Return([self EXCEPT !.error = "invalid_json"])
    ELSE Continue(self)
  ELSE TransformProcessed(o, ProcessRecord(o, self, parsed.val, line))

\* TransformTrimmed with the empty-line test made whatever skipEmptyLines is
TransformTrimmedAlwaysSkips(o, self, line) ==
  IF Trim(line) = <<>> THEN Continue(self)
  ELSE TransformParsed(o, [self EXCEPT !.decodeCalls = Append(@, line)], line,
                       JSONParse(line))

\* _transform: the empty-line test on the trimmed line, then the decoding
TransformTrimmed(o, self, line) ==
  IF o.skipEmptyLines /\ line = <<>> THEN Continue(self)
  ELSE TransformParsed(o, [self EXCEPT !.decodeCalls = Append(@, line)], line,
                       JSONParse(line))

\* TransformTooLong without the `if (this.strict)` test before the error
TransformTooLongAlwaysRaises(o, self, rawLine) ==
  IF o.on_skip THEN Continue(OnSkip(self, "line_length", rawLine))
  ELSE IF o.skip_records_with_error THEN Continue(self)
  ELSE Return([self EXCEPT !.error = "line_length"])

\* _transform: a line longer than maxLineLength, after invalid_field_length++
TransformTooLong(o, self, rawLine) ==
  IF o.on_skip THEN Continue(OnSkip(self, "line_length", rawLine))
  ELSE IF o.skip_records_with_error THEN Continue(self)
  ELSE IF o.strict THEN Return([self EXCEPT !.error = "line_length"])
  ELSE Continue(self)

\* TransformCounted without `this.context.invalid_field_length++`
TransformCountedNoLengthCount(o, self, rawLine) ==
  IF o.from_line # 0 /\ self.context.lines < o.from_line THEN Continue(self)
  ELSE IF o.to_line # 0 /\ self.context.lines > o.to_line THEN Break(self)
  ELSE IF Len(rawLine) > o.maxLineLength THEN TransformTooLong(o, self, rawLine)
  ELSE TransformTrimmed(o, self,
         IF o.skipEmptyLines THEN Trim(rawLine) ELSE TrimValue(o, rawLine))

\* _transform: the loop body after this.context.lines++
TransformCounted(o, self, rawLine) ==
  IF o.from_line # 0 /\ self.context.lines < o.from_line THEN Continue(self)
  ELSE IF o.to_line # 0 /\ self.context.lines > o.to_line THEN Break(self)
  ELSE IF Len(rawLine) > o.maxLineLength
    THEN TransformTooLong(o, [self EXCEPT !.context.invalid_field_length = @ + 1], rawLine)
  ELSE TransformTrimmed(o, self,
         IF o.skipEmptyLines THEN Trim(rawLine) ELSE TrimValue(o, rawLine))

\* one iteration of the for loop of _transform, on lines[i] = rawLine
TransformLine(o, self, rawLine) ==
  TransformCounted(o, [self EXCEPT !.context.lines = @ + 1], rawLine)

\* the rest of the loop after an iteration returned r
RECURSIVE TransformLoop(_, _, _, _)
TransformNext(o, r, lines, i) ==
  IF r.ctl = "continue" THEN TransformLoop(o, r.self, lines, i + 1) ELSE r.self

\* the for loop of _transform from index i on
TransformLoop(o, self, lines, i) ==
  IF i > Len(lines) THEN self
  ELSE TransformNext(o, TransformLine(o, self, lines[i]), lines, i)

\* _transform after the buffer guard: split, keep the last piece, loop
TransformSplit(o, self, lines) ==
  TransformLoop(o, [self EXCEPT !.buffer = lines[Len(lines)]],
                SubSeq(lines, 1, Len(lines) - 1), 1)

\* TransformAppended with the buffer guard's error going through on_skip
TransformAppendedSkippable(o, self) ==
  IF Len(self.buffer) > o.maxLineLength * BufferFactor
    THEN IF o.on_skip THEN OnSkip([self EXCEPT !.buffer = <<>>], "buffer", self.buffer)
         ELSE [self EXCEPT !.error = "buffer"]
    ELSE TransformSplit(o, self, Split(self.buffer))

\* _transform after `this.buffer += chunk.toString(this.encoding)`
TransformAppended(o, self) ==
  IF Len(self.buffer) > o.maxLineLength * BufferFactor
    THEN [self EXCEPT !.error = "buffer"]
    ELSE TransformSplit(o, self, Split(self.buffer))

\* _transform(chunk): the fields after the call; error is the error it
\* hands to callback
Transform(o, self, chunk) ==
  TransformAppended(o, [self EXCEPT !.buffer = @ \o ChunkToString(chunk)])

\* FlushWindow with the record of the last line put before the others
FlushWindowFirst(o, self, out) ==
  IF (o.from = 0 \/ self.context.records >= o.from)
     /\ (o.to = 0 \/ self.context.records <= o.to)
    THEN [self EXCEPT !.pushed = <<out>> \o @]
    ELSE self

\* _flush: the record window, after this.context.records++
FlushWindow(o, self, out) ==
  IF (o.from = 0 \/ self.context.records >= o.from)
     /\ (o.to = 0 \/ self.context.records <= o.to)
    THEN [self EXCEPT !.pushed = Append(@, out)]
    ELSE self

\* _flush: after processRecord returned
FlushProcessed(o, processed) ==
  IF processed.out = Null THEN processed.self
  ELSE FlushWindow(o, [processed.self EXCEPT !.context.records = @ + 1], processed.out)

\* FlushParsed with the test of strict before the test of skip_records_with_error
FlushParsedStrictFirst(o, self, line, parsed) ==
  IF ~parsed.ok THEN
    IF o.on_skip THEN OnSkip(self, "invalid_json", line)
    ELSE IF o.strict THEN [self EXCEPT !.error = "invalid_json"]
    ELSE self
  ELSE FlushProcessed(o, ProcessRecord(o, self, parsed.val, line))

\* _flush: after JSON.parse(line), the catch block when it threw
FlushParsed(o, self, line, parsed) ==
  IF ~parsed.ok THEN
    IF o.on_skip THEN OnSkip(self, "invalid_json", line)
    ELSE IF o.skip_records_with_error THEN self
    ELSE IF o.strict THEN [self EXCEPT !.error = "invalid_json"]
    ELSE self
  ELSE FlushProcessed(o, ProcessRecord(o, self, parsed.val, line))

\* _flush: the empty-line test on the trimmed line, then the decoding
FlushTrimmed(o, self, line) ==
  IF o.skipEmptyLines /\ line = <<>> THEN self
  ELSE FlushParsed(o, [self EXCEPT !.decodeCalls = Append(@, line)], line,
                   JSONParse(line))

\* _flush: a last line longer than maxLineLength, after invalid_field_length++
FlushTooLong(o, self, rawLine) ==
  IF o.on_skip THEN OnSkip(self, "line_length", rawLine)
  ELSE IF o.skip_records_with_error THEN self
  ELSE IF o.strict THEN [self EXCEPT !.error = "line_length"]
  ELSE self

\* _flush: after this.context.lines++
FlushCounted(o, self, rawLine) ==
  IF o.from_line # 0 /\ self.context.lines < o.from_line THEN self
  ELSE IF o.to_line # 0 /\ self.context.lines > o.to_line THEN self
  ELSE IF Len(rawLine) > o.maxLineLength
    THEN FlushTooLong(o, [self EXCEPT !.context.invalid_field_length = @ + 1], rawLine)
  ELSE FlushTrimmed(o, self,
         IF o.skipEmptyLines THEN Trim(rawLine) ELSE TrimValue(o, rawLine))

\* _flush(): the fields after the call
Flush(o, self) ==
  IF self.buffer = <<>> THEN self
  ELSE FlushCounted(o, [self EXCEPT !.context.lines = @ + 1], self.buffer)

----------------------------------------------------------------------------
(* The stream: the driver writes the input in chunks, then ends it.  An   *)
(* error handed to callback destroys the stream: no call follows it.      *)

Self ==
  [buffer |-> buffer, context |-> context, headerColumns |-> headerColumns,
   headerProcessed |-> headerProcessed, pushed |-> pushed,
   skipCalls |-> skipCalls, recordCalls |-> recordCalls,
   columnsCalls |-> columnsCalls, decodeCalls |-> decodeCalls, error |-> error]

Becomes(next) ==
  /\ buffer' = next.buffer
  /\ context' = next.context
  /\ headerColumns' = next.headerColumns
  /\ headerProcessed' = next.headerProcessed
  /\ pushed' = next.pushed
  /\ skipCalls' = next.skipCalls
  /\ recordCalls' = next.recordCalls
  /\ columnsCalls' = next.columnsCalls
  /\ decodeCalls' = next.decodeCalls
  /\ error' = next.error

\* stream.write(chunk) with the next k bytes of the input: _transform
Write ==
  /\ phase = "open"
  /\ \E k \in 1..(Len(input) - pos) :
       LET next == Transform(options, Self, SubSeq(input, pos + 1, pos + k)) IN
       /\ Becomes(next)
       /\ pos' = pos + k
       /\ phase' = IF next.error # "none" THEN "errored" ELSE "open"
  /\ UNCHANGED <<options, input, twin, converter>>

\* stream.end() once everything is written: _flush
End ==
  /\ phase = "open"
  /\ pos = Len(input)
  /\ LET next == Flush(options, Self) IN
       /\ Becomes(next)
       /\ phase' = IF next.error # "none" THEN "errored" ELSE "ended"
  /\ UNCHANGED <<options, input, pos, twin, converter>>

Next == Write \/ End

\* WriteDestroyed as if the error had not destroyed the stream
WriteDestroyedCalls(o, self, chunk) == Transform(o, [self EXCEPT !.error = "none"], chunk)

\* stream.write(chunk) after _transform or _flush handed an error to
\* callback: the stream is destroyed, the write fails without a further
\* 'error' event and _transform is not called
WriteDestroyed(o, self, chunk) == self

\* stream.end() on the destroyed stream: _flush is not called
EndDestroyed(o, self) == self

\* the driver goes on writing after the error
WriteOn ==
  /\ phase = "errored"
  /\ \E k \in 1..(Len(input) - pos) :
       /\ Becomes(WriteDestroyed(options, Self, SubSeq(input, pos + 1, pos + k)))
       /\ pos' = pos + k
  /\ UNCHANGED <<options, input, phase, twin, converter>>

\* the driver ends the stream after the error
EndOn ==
  /\ phase = "errored"
  /\ pos = Len(input)
  /\ Becomes(EndDestroyed(options, Self))
  /\ phase' = "closed"
  /\ UNCHANGED <<options, input, pos, twin, converter>>

NextOn == Write \/ End \/ WriteOn \/ EndOn

\* LockstepWrite with the two instances sharing one context object
LockstepWriteSharedContext(o, first, second, chunk) ==
  Transform(o, [second EXCEPT !.context = first.context], chunk)

\* _transform(chunk) of the second instance, after the first instance, whose
\* fields are first, was given the same chunk: it reads none of them
LockstepWrite(o, first, second, chunk) == Transform(o, second, chunk)

\* _flush() of the second instance, after the first instance's
LockstepEnd(o, first, second) == Flush(o, second)

\* the driver writes the next k bytes to both streams
WriteBoth ==
  /\ phase = "open"
  /\ \E k \in 1..(Len(input) - pos) :
       LET next == Transform(options, Self, SubSeq(input, pos + 1, pos + k)) IN
       /\ Becomes(next)
       /\ twin' = LockstepWrite(options, next, twin, SubSeq(input, pos + 1, pos + k))
       /\ pos' = pos + k
       /\ phase' = IF next.error # "none" THEN "errored" ELSE "open"
  /\ UNCHANGED <<options, input, converter>>

\* the driver ends both streams
EndBoth ==
  /\ phase = "open"
  /\ pos = Len(input)
  /\ LET next == Flush(options, Self) IN
       /\ Becomes(next)
       /\ twin' = LockstepEnd(options, next, twin)
       /\ phase' = IF next.error # "none" THEN "errored" ELSE "ended"
  /\ UNCHANGED <<options, input, pos, converter>>

NextBoth == WriteBoth \/ EndBoth

----------------------------------------------------------------------------
(* The converter streams JSONLToJSON, JSONToJSONL and CSVToJSONL.  Their  *)
(* options replacer, flatten, pretty and encoding are left unset.         *)

\* JSON.stringify(v) without a space argument; an undefined element of an
\* array is written as null
RECURSIVE JSONStringify(_)
RECURSIVE StringifyElements(_, _)
RECURSIVE StringifyMembers(_, _, _)
JSONStringify(v) ==
  CASE v.t = "number" -> NumToString(v.n)
    [] v.t = "string" -> <<QUOTE>> \o v.s \o <<QUOTE>>
    [] v.t = "boolean" -> IF v.n = 1 THEN W_true ELSE W_false
    [] v.t = "array" -> <<"[">> \o StringifyElements(v.e, 1) \o <<"]">>
    [] v.t = "object" -> <<"{">> \o StringifyMembers(v.k, v.e, 1) \o <<"}">>
    [] OTHER -> W_null

StringifyElements(e, i) ==
  IF i > Len(e) THEN <<>>
  ELSE JSONStringify(e[i]) \o (IF i < Len(e) THEN <<",">> ELSE <<>>)
       \o StringifyElements(e, i + 1)

StringifyMembers(k, e, i) ==
  IF i > Len(k) THEN <<>>
  ELSE <<QUOTE>> \o k[i] \o <<QUOTE, ":">> \o JSONStringify(e[i])
       \o (IF i < Len(k) THEN <<",">> ELSE <<>>)
       \o StringifyMembers(k, e, i + 1)

\* the fields of a new JSONLToJSON, with the chunks it pushed and the error
\* it handed to callback
NewJSONLToJSON == [buffer |-> <<>>, objects |-> <<>>, pushed |-> <<>>, error |-> "none"]

\* the options of `new JSONLToJSON()`; an arrayName of <<>> is null
JSONLToJSONOptions ==
  [kind |-> "JSONLToJSON", arrayWrapper |-> TRUE, arrayName |-> <<>>, maxObjects |-> Infinity]

\* JSONLToJSON._transform: one line of the loop, parsed being
\* JSON.parse(trimmedLine)
ToJSONLine(o, self, trimmedLine, parsed) ==
  IF trimmedLine = <<>> THEN Continue(self)
  ELSE IF ~parsed.ok THEN Return([self EXCEPT !.error = "invalid_json"])
  ELSE IF Len(self.objects) + 1 >= o.maxObjects
    THEN Return([self EXCEPT !.objects = Append(@, parsed.val), !.error = "max_objects"])
  ELSE Continue([self EXCEPT !.objects = Append(@, parsed.val)])

RECURSIVE ToJSONLoop(_, _, _, _)
ToJSONNext(o, r, lines, i) ==
  IF r.ctl = "continue" THEN ToJSONLoop(o, r.self, lines, i + 1) ELSE r.self

\* JSONLToJSON._transform: the for loop from index i on
ToJSONLoop(o, self, lines, i) ==
  IF i > Len(lines) THEN self
  ELSE ToJSONNext(o, ToJSONLine(o, self, Trim(lines[i]), JSONParse(Trim(lines[i]))), lines, i)

ToJSONSplit(o, self, lines) ==
  ToJSONLoop(o, [self EXCEPT !.buffer = lines[Len(lines)]], SubSeq(lines, 1, Len(lines) - 1), 1)

\* JSONLToJSON._transform(chunk)
ToJSONTransform(o, self, chunk) ==
  ToJSONSplit(o, self, Split(self.buffer \o ChunkToString(chunk)))

\* ToJSONOutput with arrayWrapper: false giving the array whatever its length
ToJSONOutputAlwaysArray(o, objects) ==
  IF o.arrayWrapper /\ o.arrayName # <<>> THEN Obj(<<o.arrayName>>, <<Arr(objects)>>)
  ELSE Arr(objects)

\* JSONLToJSON._flush: the value that is written
ToJSONOutput(o, objects) ==
  IF o.arrayWrapper THEN
    IF o.arrayName # <<>> THEN Obj(<<o.arrayName>>, <<Arr(objects)>>) ELSE Arr(objects)
  ELSE IF Len(objects) = 1 THEN objects[1]
  ELSE Arr(objects)

\* JSONLToJSON._flush after the last line, parsed being JSON.parse of it
ToJSONLast(o, self, parsed) ==
  IF ~parsed.ok THEN [self EXCEPT !.error = "invalid_json"]
  ELSE [self EXCEPT
          !.objects = Append(@, parsed.val),
          !.pushed = Append(@, JSONStringify(ToJSONOutput(o, Append(self.objects, parsed.val))))]

\* JSONLToJSON._flush()
ToJSONFlush(o, self) ==
  IF Trim(self.buffer) # <<>> THEN ToJSONLast(o, self, JSONParse(Trim(self.buffer)))
  ELSE [self EXCEPT !.pushed = Append(@, JSONStringify(ToJSONOutput(o, self.objects)))]

\* the fields of a new JSONToJSONL or CSVToJSONL (parser being the text its
\* csv-parse parser holds, and the column names it has read)
NewJSONToJSONL == [buffer |-> <<>>, objectCount |-> 0, pushed |-> <<>>, error |-> "none"]
NewCSVToJSONL ==
  [parser |-> [buffer |-> <<>>, columns |-> <<>>, header |-> FALSE],
   objectCount |-> 0, pushed |-> <<>>, error |-> "none"]

\* the options of `new JSONToJSONL()` and `new CSVToJSONL()`; a rootKey of <<>>
\* is null, arrayPath is the sequence of the names between its dots
JSONToJSONLOptions ==
  [kind |-> "JSONToJSONL", arrayPath |-> <<>>, maxObjectSize |-> Infinity, rootKey |-> <<>>]
CSVToJSONLOptions ==
  [kind |-> "CSVToJSONL", maxObjectSize |-> Infinity, rootKey |-> <<>>]

\* processObject, from the root key on: self has counted the object
Serialized(o, self, obj) ==
  JSONStringify(IF o.rootKey # <<>> /\ self.objectCount = 1
                  THEN Obj(<<o.rootKey>>, <<obj>>) ELSE obj)

\* processObject(obj) of JSONToJSONL and of CSVToJSONL: the fields after
\* the call, the string returned, and whether it threw instead
ProcessObject(o, self, obj) ==
  [self |-> [self EXCEPT !.objectCount = @ + 1],
   line |-> Serialized(o, [self EXCEPT !.objectCount = @ + 1], obj),
   thrown |-> Len(Serialized(o, [self EXCEPT !.objectCount = @ + 1], obj)) > o.maxObjectSize]

\* the loops `for (const item of ...)` of _flush from index i on: a throw
\* of processObject goes to the catch block
RECURSIVE PushItems(_, _, _, _)
\* PushNext with the line of the object that is too long pushed before the error
PushNextEmitsFirst(o, r, items, i) ==
  IF r.thrown
    THEN [r.self EXCEPT !.pushed = Append(@, r.line \o <<LF>>), !.error = "object_size"]
  ELSE PushItems(o, [r.self EXCEPT !.pushed = Append(@, r.line \o <<LF>>)], items, i + 1)

PushNext(o, r, items, i) ==
  IF r.thrown THEN [r.self EXCEPT !.error = "object_size"]
  ELSE PushItems(o, [r.self EXCEPT !.pushed = Append(@, r.line \o <<LF>>)], items, i + 1)

PushItems(o, self, items, i) ==
  IF i > Len(items) THEN self
  ELSE PushNext(o, ProcessObject(o, self, items[i]), items, i)

\* getNestedValue(obj, path) from the i-th name of the path on
RECURSIVE GetNestedValue(_, _, _)
GetNestedValue(current, path, i) ==
  IF i > Len(path) THEN current
  ELSE GetNestedValue(IF Truthy(current) /\ Member(current, path[i]).t # "undefined"
                        THEN Member(current, path[i]) ELSE Null,
                      path, i + 1)

\* JSONToJSONL._flush with an arrayPath, target being the value at the path
ToJSONLTarget(o, self, target) ==
  IF ~IsArray(target) THEN [self EXCEPT !.error = "path"]
  ELSE PushItems(o, self, target.e, 1)

\* JSONToJSONL._flush after JSON.parse(this.buffer)
ToJSONLParsed(o, self, parsed) ==
  IF ~parsed.ok THEN [self EXCEPT !.error = "invalid_json"]
  ELSE IF o.arrayPath # <<>> THEN ToJSONLTarget(o, self, GetNestedValue(parsed.val, o.arrayPath, 1))
  ELSE IF IsArray(parsed.val) THEN PushItems(o, self, parsed.val.e, 1)
  ELSE PushItems(o, self, <<parsed.val>>, 1)

\* JSONToJSONL._transform(chunk) and _flush()
ToJSONLTransform(o, self, chunk) == [self EXCEPT !.buffer = @ \o ChunkToString(chunk)]
ToJSONLFlush(o, self) ==
  IF Trim(self.buffer) = <<>> THEN self ELSE ToJSONLParsed(o, self, JSONParse(self.buffer))

\* the fields of a CSV line: split at the delimiter ',', each trimmed
RECURSIVE CsvFields(_, _, _)
CsvFields(line, i, field) ==
  IF i > Len(line) THEN <<Trim(field)>>
  ELSE IF line[i] = "," THEN <<Trim(field)>> \o CsvFields(line, i + 1, <<>>)
  ELSE CsvFields(line, i + 1, Append(field, line[i]))

\* the csv-parse parser with columns: true on one line, and the 'readable'
\* handler on the record it gives: the first line names the columns, a
\* line of as many fields is a record of strings, any other is an error
CsvLine(o, self, fields) ==
  IF ~self.parser.header
    THEN [self EXCEPT !.parser.columns = fields, !.parser.header = TRUE]
  ELSE IF Len(fields) # Len(self.parser.columns) THEN [self EXCEPT !.error = "csv"]
  ELSE PushItems(o, self, <<Obj(self.parser.columns, StrNames(fields))>>, 1)

RECURSIVE CsvLoop(_, _, _, _)
CsvNext(o, self, lines, i) ==
  IF self.error # "none" THEN self ELSE CsvLoop(o, self, lines, i + 1)

\* the records of the lines from index i on, blank lines being skipped
CsvLoop(o, self, lines, i) ==
  IF i > Len(lines) THEN self
  ELSE IF Trim(lines[i]) = <<>> THEN CsvLoop(o, self, lines, i + 1)
  ELSE CsvNext(o, CsvLine(o, self, CsvFields(lines[i], 1, <<>>)), lines, i)

CsvSplit(o, self, lines) ==
  CsvLoop(o, [self EXCEPT !.parser.buffer = lines[Len(lines)]],
          SubSeq(lines, 1, Len(lines) - 1), 1)

\* CSVToJSONL._transform(chunk): this.parser.write(chunk), and _flush():
\* this.parser.end(), which gives the last line
CSVTransform(o, self, chunk) ==
  CsvSplit(o, self, Split(self.parser.buffer \o ChunkToString(chunk)))
CSVFlush(o, self) ==
  CsvLoop(o, [self EXCEPT !.parser.buffer = <<>>], <<self.parser.buffer>>, 1)

----------------------------------------------------------------------------
(* The validator stream JSONLValidator.  A schema is modelled by its type *)
(* constraint alone; an error is recorded with its line and the kind of   *)
(* its message, and the result is kept as the object that is pushed.      *)

\* the fields of a new JSONLValidator, with the results it pushed and the
\* error it emitted
NewJSONLValidator ==
  [buffer |-> <<>>, lineNumber |-> 0, errors |-> <<>>, validLines |-> 0,
   invalidLines |-> 0, pushed |-> <<>>, error |-> "none"]

\* the options of `new JSONLValidator()`; a schema of "none" is null
JSONLValidatorOptions ==
  [kind |-> "JSONLValidator", maxLineLength |-> 1024 * 1024, maxObjects |-> Infinity,
   strictMode |-> FALSE, allowEmptyLines |-> TRUE, schema |-> "none"]

\* String.prototype.includes for one character
Includes(s, c) == \E i \in 1..Len(s) : s[i] = c

\* a ValidationError raised at the current line
ValidationError(self, message) == [line |-> self.lineNumber, message |-> message]

\* JSONLValidator.validateSchema: the type constraint
ValidateSchema(o, self, value) ==
  IF o.schema # "none" /\ value.t # o.schema
    THEN <<ValidationError(self, "Expected type")>>
  ELSE <<>>

\* JSONLValidator.validateLine(line), parsed being JSON.parse(line.trim())
ValidateParsed(o, self, parsed) ==
  IF parsed.ok THEN ValidateSchema(o, self, parsed.val)
  ELSE <<ValidationError(self, "Invalid JSON")>>

ValidateLine(o, self, line) ==
  (IF Len(line) > o.maxLineLength
     THEN <<ValidationError(self, "Line length exceeds maximum")>> ELSE <<>>)
  \o (IF o.strictMode /\ (Includes(line, LF) \/ Includes(line, CR))
        THEN <<ValidationError(self, "Line contains newline characters")>> ELSE <<>>)
  \o (IF o.strictMode /\ line # Trim(line)
        THEN <<ValidationError(self, "Line has leading or trailing whitespace")>> ELSE <<>>)
  \o ValidateParsed(o, self, JSONParse(Trim(line)))

\* ValidatorCount counting every error of the line in invalidLines
ValidatorCountPerError(self, lineErrors) ==
  IF lineErrors # <<>>
    THEN [self EXCEPT !.errors = @ \o lineErrors, !.invalidLines = @ + Len(lineErrors)]
  ELSE [self EXCEPT !.validLines = @ + 1]

\* the counting of a line that validateLine gave lineErrors
ValidatorCount(self, lineErrors) ==
  IF lineErrors # <<>>
    THEN [self EXCEPT !.errors = @ \o lineErrors, !.invalidLines = @ + 1]
  ELSE [self EXCEPT !.validLines = @ + 1]

\* JSONLValidator._transform: one line of the loop, after lineNumber++
ValidatorLine(o, self, line) ==
  IF self.lineNumber > o.maxObjects THEN Return([self EXCEPT !.error = "max_objects"])
  ELSE IF Trim(line) = <<>> THEN
    IF ~o.allowEmptyLines
      THEN Continue([self EXCEPT
                       !.errors = Append(@, ValidationError(self, "Empty lines not allowed")),
                       !.invalidLines = @ + 1])
    ELSE Continue(self)
  ELSE Continue(ValidatorCount(self, ValidateLine(o, self, line)))

RECURSIVE ValidatorLoop(_, _, _, _)
ValidatorNext(o, r, lines, i) ==
  IF r.ctl = "continue" THEN ValidatorLoop(o, r.self, lines, i + 1) ELSE r.self

\* JSONLValidator._transform: the for loop from index i on
ValidatorLoop(o, self, lines, i) ==
  IF i > Len(lines) THEN self
  ELSE ValidatorNext(o, ValidatorLine(o, [self EXCEPT !.lineNumber = @ + 1], lines[i]), lines, i)

ValidatorSplit(o, self, lines) ==
  ValidatorLoop(o, [self EXCEPT !.buffer = lines[Len(lines)]], SubSeq(lines, 1, Len(lines) - 1), 1)

\* JSONLValidator._transform(chunk)
ValidatorTransform(o, self, chunk) ==
  ValidatorSplit(o, self, Split(self.buffer \o ChunkToString(chunk)))

\* JSONLValidator._flush: the result that is pushed
ValidatorResult(self) ==
  [valid |-> self.errors = <<>>, errors |-> self.errors, totalLines |-> self.lineNumber,
   validLines |-> self.validLines, invalidLines |-> self.invalidLines]

ValidatorPush(self) == [self EXCEPT !.pushed = Append(@, ValidatorResult(self))]

\* JSONLValidator._flush: the last line, after lineNumber++
ValidatorLast(o, self) ==
  IF self.lineNumber > o.maxObjects THEN [self EXCEPT !.error = "max_objects"]
  ELSE ValidatorPush(ValidatorCount(self, ValidateLine(o, self, self.buffer)))

\* JSONLValidator._flush()
ValidatorFlush(o, self) ==
  IF Trim(self.buffer) # <<>> THEN ValidatorLast(o, [self EXCEPT !.lineNumber = @ + 1])
  ELSE ValidatorPush(self)

ConverterTransform(o, self, chunk) ==
  CASE o.kind = "JSONLToJSON" -> ToJSONTransform(o, self, chunk)
    [] o.kind = "JSONToJSONL" -> ToJSONLTransform(o, self, chunk)
    [] o.kind = "JSONLValidator" -> ValidatorTransform(o, self, chunk)
    [] OTHER -> CSVTransform(o, self, chunk)

ConverterFlush(o, self) ==
  CASE o.kind = "JSONLToJSON" -> ToJSONFlush(o, self)
    [] o.kind = "JSONToJSONL" -> ToJSONLFlush(o, self)
    [] o.kind = "JSONLValidator" -> ValidatorFlush(o, self)
    [] OTHER -> CSVFlush(o, self)

\* the fields of JSONLParse, which a run of a converter leaves alone
parserVars ==
  <<buffer, context, headerColumns, headerProcessed, pushed, skipCalls, recordCalls,
    columnsCalls, decodeCalls, error, twin>>

\* stream.write(chunk) on the converter, with the next k bytes of the input
ConverterWrite ==
  /\ phase = "open"
  /\ \E k \in 1..(Len(input) - pos) :
       /\ converter' = ConverterTransform(options, converter, SubSeq(input, pos + 1, pos + k))
       /\ pos' = pos + k
  /\ phase' = IF converter'.error # "none" THEN "errored" ELSE "open"
  /\ UNCHANGED <<options, input, parserVars>>

\* stream.end() on the converter once everything is written
ConverterEnd ==
  /\ phase = "open"
  /\ pos = Len(input)
  /\ converter' = ConverterFlush(options, converter)
  /\ phase' = IF converter'.error # "none" THEN "errored" ELSE "ended"
  /\ UNCHANGED <<options, input, pos, parserVars>>

NextConverter == ConverterWrite \/ ConverterEnd

\* the state of a new converter with options o and fields self, about to
\* be written text
StartConverter(o, self, text) ==
  /\ options = o
  /\ input = text
  /\ pos = 0
  /\ converter = self
  /\ phase = "open"
  /\ buffer = NewParser.buffer
  /\ context = NewParser.context
  /\ headerColumns = NewParser.headerColumns
  /\ headerProcessed = NewParser.headerProcessed
  /\ pushed = NewParser.pushed
  /\ skipCalls = NewParser.skipCalls
  /\ recordCalls = NewParser.recordCalls
  /\ columnsCalls = NewParser.columnsCalls
  /\ decodeCalls = NewParser.decodeCalls
  /\ error = NewParser.error
  /\ twin = NewParser

----------------------------------------------------------------------------
(* Inputs and initial states *)

\* the texts of exactly n lines of bodies, each ended by LF
RECURSIVE Terminated(_, _)
Terminated(bodies, n) ==
  IF n = 0 THEN {<<>>}
  ELSE {t \o b \o <<LF>> : t \in Terminated(bodies, n - 1), b \in bodies}

\* the texts of at most n lines of bodies, the last one ended or not
Inputs(bodies, n) ==
  UNION {Terminated(bodies, m) : m \in 0..n}
    \cup UNION {{t \o b : t \in Terminated(bodies, m), b \in bodies} : m \in 0..(n - 1)}

\* the state of a new stream with options o, about to be written text
Start(o, text) ==
  /\ options = o
  /\ input = text
  /\ pos = 0
  /\ buffer = NewParser.buffer
  /\ context = NewParser.context
  /\ headerColumns = NewParser.headerColumns
  /\ headerProcessed = NewParser.headerProcessed
  /\ pushed = NewParser.pushed
  /\ skipCalls = NewParser.skipCalls
  /\ recordCalls = NewParser.recordCalls
  /\ columnsCalls = NewParser.columnsCalls
  /\ decodeCalls = NewParser.decodeCalls
  /\ error = NewParser.error
  /\ phase = "open"
  /\ twin = NewParser
  /\ converter = <<>>

MaxLines == 3
ShortLimit == 2
TinyLimit == 1
MaxWindow == 2

\* line bodies: a value, a value before a CR (CRLF when ended, trailing
\* whitespace when last), invalid JSON, a blank line, a value longer than
\* ShortLimit
LineBodies ==
  {<<"1">>, <<"2", CR>>, <<"{">>, <<SP>>, [i \in 1..(ShortLimit + 1) |-> "1"]}

\* the error-policy options with line length limit ml
PolicyOptions(ml) ==
  {[DefaultOptions EXCEPT !.strict = st, !.skip_records_with_error = sk, !.on_skip = os,
                          !.maxLineLength = MaxLineLengthOption(ml)] :
     st \in BOOLEAN, sk \in BOOLEAN, os \in BOOLEAN}

\* every error policy, with and without skipEmptyLines and a length limit
Init ==
  \E o \in PolicyOptions(0) \cup PolicyOptions(ShortLimit), se \in BOOLEAN,
     text \in Inputs(LineBodies, MaxLines) :
    Start([o EXCEPT !.skipEmptyLines = se], text)

Spec == Init /\ [][Next]_vars

\* a line of one value and spaces that is longer than the buffer guard
\* allows a pending line to be
GuardLine == [i \in 1..(TinyLimit * BufferFactor + 1) |-> IF i = 1 THEN "1" ELSE SP]

\* line bodies around the limit TinyLimit: within it, longer, beyond the guard
LongBodies == {<<"1">>, [i \in 1..(TinyLimit + 1) |-> "2"], GuardLine}

\* every error policy under the limit TinyLimit, on lines around the limit
InitLong ==
  \E o \in PolicyOptions(TinyLimit), text \in Inputs(LongBodies, MaxLines - 1) :
    Start(o, text)

SpecLong == InitLong /\ [][Next]_vars

\* every error policy, with and without the limit TinyLimit, on inputs of
\* one-character lines, up to MaxLines more lines than the guard's size
InitBuf ==
  \E o \in PolicyOptions(TinyLimit) \cup PolicyOptions(0),
     text \in Inputs({<<"1">>}, (TinyLimit * BufferFactor) \div 2 + MaxLines) :
    Start(o, text)

SpecBuf == InitBuf /\ [][Next]_vars

\* the line and record windows, on values and null lines
WindowOptions ==
  {[DefaultOptions EXCEPT !.from = f, !.to = t, !.from_line = fl, !.to_line = tl] :
     f \in 0..MaxWindow, t \in 0..MaxWindow, fl \in {0, MaxWindow}, tl \in {0, MaxWindow}}

WindowBodies == {<<"1">>, <<"2">>, <<"n", "u", "l", "l">>}

InitWin ==
  \E o \in WindowOptions, text \in Inputs(WindowBodies, MaxLines) : Start(o, text)

SpecWin == InitWin /\ [][Next]_vars

\* columns: true, strict or not, on array lines (each a possible header:
\* names of a string and a number, a repeated name, a single name), an
\* object, a number and invalid JSON
ColumnOptions ==
  {[DefaultOptions EXCEPT !.columns = [kind |-> "true", names |-> <<>>], !.strict = st] :
     st \in BOOLEAN}

ColumnBodies ==
  {<<"[", QUOTE, "a", QUOTE, ",", "1", "]">>,
   <<"[", "2", ",", "2", "]">>,
   <<"[", "3", "]">>,
   <<"{", QUOTE, "c", QUOTE, ":", "1", "}">>,
   <<"7">>,
   <<"{">>}

InitCols ==
  \E o \in ColumnOptions, text \in Inputs(ColumnBodies, MaxLines) : Start(o, text)

SpecCols == InitCols /\ [][Next]_vars

----------------------------------------------------------------------------
(* What the specification says of a whole text, for the statements below *)

\* the text written so far, and all of it
Received == ChunkToString(SubSeq(input, 1, pos))
WholeInput == ChunkToString(input)

\* the lines of a text that a line terminator ends
CompleteLines(text) == SubSeq(Split(text), 1, Len(Split(text)) - 1)

\* the text after the last line terminator
PendingTail(text) == Split(text)[Len(Split(text))]

\* the lines of a text: the complete ones and a non-empty unterminated last one
PhysicalLines(text) ==
  CompleteLines(text) \o (IF PendingTail(text) = <<>> THEN <<>> ELSE <<PendingTail(text)>>)

\* the lines the parser has been given: the complete lines written so far
\* and, once the stream has ended or failed, the pending last line as well
LinesSeen == IF phase = "open" THEN CompleteLines(Received) ELSE PhysicalLines(Received)

IsTooLong(o, l) == Len(l) > o.maxLineLength
Normalized(o, l) == IF o.skipEmptyLines THEN Trim(l) ELSE TrimValue(o, l)
IsBlankSkipped(o, l) == o.skipEmptyLines /\ Trim(l) = <<>>
IsInvalidJson(o, l) == ~IsTooLong(o, l) /\ ~IsBlankSkipped(o, l) /\ ~JSONParse(Normalized(o, l)).ok
IsValidLine(o, l) == ~IsTooLong(o, l) /\ ~IsBlankSkipped(o, l) /\ JSONParse(Normalized(o, l)).ok
Offends(o, l) == IsTooLong(o, l) \/ IsInvalidJson(o, l)
InLineWindow(o, n) == (o.from_line = 0 \/ n >= o.from_line) /\ (o.to_line = 0 \/ n <= o.to_line)

IsStrictPolicy(o) == o.strict /\ ~o.on_skip /\ ~o.skip_records_with_error
IsLenientPolicy(o) == ~o.strict /\ ~o.on_skip /\ ~o.skip_records_with_error

\* the index of the first line inside the line window that offends, 0 if none
FirstOffender(o, L) ==
  IF \E i \in 1..Len(L) : InLineWindow(o, i) /\ Offends(o, L[i])
    THEN CHOOSE i \in 1..Len(L) :
           /\ InLineWindow(o, i) /\ Offends(o, L[i])
           /\ \A j \in 1..(i - 1) : ~(InLineWindow(o, j) /\ Offends(o, L[j]))
    ELSE 0

\* the decoded values of the valid lines of L inside the line window, in order
RECURSIVE DecodedFrom(_, _, _)
DecodedFrom(o, L, i) ==
  IF i > Len(L) THEN <<>>
  ELSE (IF InLineWindow(o, i) /\ IsValidLine(o, L[i])
          THEN <<JSONParse(Normalized(o, L[i])).val>> ELSE <<>>)
       \o DecodedFrom(o, L, i + 1)

Decoded(o, L) == DecodedFrom(o, L, 1)

\* the kinds of the offences of L inside the line window, in order
RECURSIVE OffencesFrom(_, _, _)
OffencesFrom(o, L, i) ==
  IF i > Len(L) THEN <<>>
  ELSE (IF InLineWindow(o, i) /\ IsTooLong(o, L[i]) THEN <<"line_length">>
        ELSE IF InLineWindow(o, i) /\ IsInvalidJson(o, L[i]) THEN <<"invalid_json">>
        ELSE <<>>)
       \o OffencesFrom(o, L, i + 1)

Offences(o, L) == OffencesFrom(o, L, 1)

\* the lines of L before index i (all of them when i = 0)
Before(L, i) == IF i = 0 THEN L ELSE SubSeq(L, 1, i - 1)

\* no option moves or reshapes records: every decoded value is emitted as it is
IsPlain(o) ==
  /\ o.from = 0 /\ o.to = 0 /\ o.from_line = 0 /\ o.to_line = 0
  /\ o.columns.kind = "none" /\ o.cast = "none" /\ o.cast_date = "none"
  /\ o.on_record = "none" /\ ~o.info /\ ~o.raw /\ o.objname = <<>>
  /\ ~o.skip_records_with_empty_values

SkipKinds == [i \in 1..Len(skipCalls) |-> skipCalls[i].error]

----------------------------------------------------------------------------
(* Statements *)

\* what the stream emits when the whole text is written as one chunk
EndAfter(o, t) == IF t.error # "none" THEN t ELSE Flush(o, t)
SingleChunkRun(o, text) == EndAfter(o, Transform(o, NewParser, text))

\* C1: chunk-invariance.  When the input has been written in chunks and the
\* stream ended, the records emitted are those emitted when the same input
\* is written as one chunk and the stream ended.
C1_ChunkInvariance ==
  phase = "ended" => pushed = SingleChunkRun(options, input).pushed

LineFeeds(text) == Cardinality({i \in 1..Len(text) : text[i] = LF})

\* C2: after a full run the lines counter is the number of line terminators
\* of the input, plus one for a non-empty text after the last terminator.
C2_LinesCounter ==
  phase = "ended" =>
    context.lines = LineFeeds(WholeInput)
                    + (IF PendingTail(WholeInput) # <<>> THEN 1 ELSE 0)

\* C3: under the strict policy the first line that fails JSON decoding
\* raises the invalid-JSON error; the records of all lines before it are the
\* emitted records, in order, and nothing of a later line is emitted.
C3_StrictDecodeError ==
  (IsStrictPolicy(options) /\ IsPlain(options)) =>
    LET b == FirstOffender(options, LinesSeen) IN
    /\ (b # 0 /\ IsInvalidJson(options, LinesSeen[b])) =>
         /\ error = "invalid_json"
         /\ phase = "errored"
         /\ pushed = Decoded(options, Before(LinesSeen, b))
    /\ error = "invalid_json" => (b # 0 /\ IsInvalidJson(options, LinesSeen[b]))

\* a strict run failed on a line that follows a record and precedes a line
C3_Witness ==
  /\ IsStrictPolicy(options)
  /\ error = "invalid_json"
  /\ pushed # <<>>
  /\ FirstOffender(options, PhysicalLines(WholeInput)) < Len(PhysicalLines(WholeInput))

C5_PolicyLadder ==
  (IsPlain(options) /\ error # "buffer") =>
    LET b == FirstOffender(options, LinesSeen)
        fatal == b # 0 /\ ~options.on_skip /\ ~options.skip_records_with_error
                   /\ options.strict
        handled == Offences(options, IF fatal THEN SubSeq(LinesSeen, 1, b) ELSE LinesSeen)
    IN /\ error = (IF fatal THEN handled[Len(handled)] ELSE "none")
       /\ SkipKinds = (IF options.on_skip THEN handled ELSE <<>>)
       /\ pushed = Decoded(options, IF fatal THEN Before(LinesSeen, b) ELSE LinesSeen)

\* with on_skip and strict, a run ended after on_skip was told of a too
\* long line and of an invalid one, the last of them the unterminated line
C5_Witness ==
  /\ options.on_skip /\ options.strict
  /\ phase = "ended"
  /\ \E i, j \in 1..Len(skipCalls) :
       skipCalls[i].error = "line_length" /\ skipCalls[j].error = "invalid_json"
  /\ PendingTail(WholeInput) # <<>>
  /\ Offends(options, PendingTail(WholeInput))

\* the too long lines among L, and the calls of on_skip for such a line
TooLongLines(o, L) == SelectSeq(L, LAMBDA l : IsTooLong(o, l))
LengthSkips == SelectSeq(skipCalls, LAMBDA c : c.error = "line_length")
LengthSkipLines == [i \in 1..Len(LengthSkips) |-> LengthSkips[i].line]
IsPrefix(a, b) == Len(a) <= Len(b) /\ SubSeq(b, 1, Len(a)) = a

\* C6, as stated: with on_skip no error is ever raised on account of a too
\* long line, whatever its length and however the input is chunked, and after
\* the run on_skip has been called once, and invalid_field_length counted
\* once, for each too long line of the input.
C6_OnSkipNeverRaises ==
  (options.on_skip /\ IsPlain(options)) =>
    /\ error = "none"
    /\ phase = "ended" =>
         /\ LengthSkipLines = TooLongLines(options, PhysicalLines(WholeInput))
         /\ context.invalid_field_length
              = Len(TooLongLines(options, PhysicalLines(WholeInput)))

\* C6, amended: with on_skip the line-length error is never raised; on_skip
\* is called once, and invalid_field_length counted once, for each too long
\* line that reaches the length check, in input order: these are all the too
\* long lines seen unless the buffer guard has ended the run, which it still
\* can with on_skip set.
C6_OnSkipTooLong ==
  (options.on_skip /\ IsPlain(options)) =>
    /\ error \in {"none", "buffer"}
    /\ context.invalid_field_length = Len(LengthSkips)
    /\ IsPrefix(LengthSkipLines, TooLongLines(options, LinesSeen))
    /\ error = "none" => LengthSkipLines = TooLongLines(options, LinesSeen)

\* with on_skip and strict, a run ended after on_skip was told of two too
\* long lines, the second of them the unterminated last line
C6_Witness ==
  /\ options.on_skip /\ options.strict
  /\ phase = "ended"
  /\ Len(LengthSkips) = 2
  /\ context.invalid_field_length = 2
  /\ IsTooLong(options, PendingTail(WholeInput))

\* C7: a write whose chunk brings the buffer over BufferFactor times
\* maxLineLength raises the buffer error whatever strict,
\* skip_records_with_error and on_skip are: the stream fails, on_skip is not
\* called, no record is emitted and no counter moves, so no line of the chunk
\* is processed.  No other write raises that error.
C7_OverflowAlwaysFatal ==
  [][(phase = "open" /\ pos' > pos) =>
       IF Len(buffer) + Len(ChunkToString(SubSeq(input, pos + 1, pos')))
            > options.maxLineLength * BufferFactor
         THEN /\ error' = "buffer"
              /\ phase' = "errored"
              /\ skipCalls' = skipCalls
              /\ recordCalls' = recordCalls
              /\ decodeCalls' = decodeCalls
              /\ pushed' = pushed
              /\ context' = context
              /\ headerColumns' = headerColumns
              /\ headerProcessed' = headerProcessed
         ELSE error' # "buffer"]_vars

\* the buffer error ended a run that on_skip and skip_records_with_error
\* cover and strict does not, after records of earlier chunks were emitted
C7_Witness ==
  /\ error = "buffer"
  /\ phase = "errored"
  /\ options.on_skip /\ options.skip_records_with_error /\ ~options.strict
  /\ pushed # <<>>
  /\ skipCalls = <<>>

\* C8: the buffer error is raised only when the text received after the last
\* line terminator is longer than BufferFactor times maxLineLength; an input
\* whose lines are all terminated and within maxLineLength never raises it.
C8_OverflowOnlyOnLongTail ==
  /\ error = "buffer" =>
       Len(PendingTail(Received)) > options.maxLineLength * BufferFactor
  /\ (/\ PendingTail(WholeInput) = <<>>
      /\ TooLongLines(options, PhysicalLines(WholeInput)) = <<>>)
       => error # "buffer"

\* the lines handled so far: under the strict policy those before the first
\* offending line, otherwise all the lines seen
Handled ==
  IF IsStrictPolicy(options) /\ FirstOffender(options, LinesSeen) # 0
    THEN Before(LinesSeen, FirstOffender(options, LinesSeen))
    ELSE LinesSeen

NonNull(values) == SelectSeq(values, LAMBDA v : v # Null)

\* the names a header value gives: the elements of an array as strings, the
\* member names of an object, none for any other value
HeaderNames(h) ==
  IF IsArray(h) THEN [i \in 1..Len(h.e) |-> JSString(h.e[i])]
  ELSE IF IsObject(h) THEN h.k
  ELSE <<>>

NameSet(names) == {names[i] : i \in 1..Len(names)}

\* out is the object whose members are the names, each name (at its last
\* place among the names) with the element of the array v at that place, or
\* null where v has no such element
MapsNames(out, names, v) ==
  /\ IsObject(out)
  /\ NameSet(out.k) = NameSet(names)
  /\ Len(out.k) = Cardinality(NameSet(names))
  /\ \A i \in 1..Len(names) :
       (\A j \in (i + 1)..Len(names) : names[j] # names[i]) =>
         Member(out, names[i]) = (IF i <= Len(v.e) THEN v.e[i] ELSE Null)

\* C9, as stated: with columns: true the first decoded value gives no record
\* and is not counted, and every later decoded array is emitted as an object
\* that has, under the i-th header name, the i-th element of the array.
C9_EveryArrayMapped ==
  (options.columns.kind = "true" /\ Decoded(options, Handled) # <<>>) =>
    LET later == NonNull(Tail(Decoded(options, Handled)))
        names == HeaderNames(Decoded(options, Handled)[1])
    IN /\ Len(pushed) = Len(later)
       /\ context.records = Len(later)
       /\ \A n \in 1..Len(later) :
            IsArray(later[n]) =>
              /\ IsObject(pushed[n])
              /\ \A i \in 1..Len(names) :
                   i <= Len(later[n].e) => Member(pushed[n], names[i]) = later[n].e[i]

\* C9, amended: with columns: true the first decoded value gives no record
\* and is not counted.  When it is an array or an object it gives the header
\* names, and every later array is emitted as the object of those names: a
\* name has the element at its place (its last place when the name is
\* repeated), or null when the array is shorter.  When it is any other value
\* no names are learned and later arrays are emitted unchanged, as every
\* later value that is not an array is.
C9_HeaderThenMapping ==
  options.columns.kind = "true" =>
    /\ headerProcessed = (Decoded(options, Handled) # <<>>)
    /\ Decoded(options, Handled) = <<>> => (pushed = <<>> /\ context.records = 0)
    /\ Decoded(options, Handled) # <<>> =>
         LET header == Decoded(options, Handled)[1]
             later == NonNull(Tail(Decoded(options, Handled)))
         IN /\ Len(pushed) = Len(later)
            /\ context.records = Len(later)
            /\ \A n \in 1..Len(later) :
                 IF IsArray(later[n]) /\ (IsArray(header) \/ IsObject(header))
                   THEN MapsNames(pushed[n], HeaderNames(header), later[n])
                   ELSE pushed[n] = later[n]

\* a run ended after an array header of two names was consumed and a later
\* array was emitted as an object of these two names
C9_Witness ==
  /\ options.columns.kind = "true"
  /\ phase = "ended"
  /\ Decoded(options, Handled) # <<>>
  /\ IsArray(Decoded(options, Handled)[1])
  /\ context.records = Len(pushed)
  /\ \E n \in 1..Len(pushed) :
       /\ IsObject(pushed[n])
       /\ Len(pushed[n].k) = 2
       /\ IsArray(NonNull(Tail(Decoded(options, Handled)))[n])

\* the records that survive: the values, other than null, of the valid
\* lines inside the line window
Survivors == NonNull(Decoded(options, LinesSeen))

\* C10: with from = f and to = t the records emitted are the surviving
\* records numbered f to t, in order, the numbers being the values of the
\* records counter: the records before f are not emitted and are counted.
C10_RecordWindow ==
  (error = "none"
   /\ IsPlain([options EXCEPT !.from = 0, !.to = 0, !.from_line = 0, !.to_line = 0])) =>
    /\ pushed = SubSeq(Survivors,
                       IF options.from = 0 THEN 1 ELSE options.from,
                       IF options.to = 0 THEN Len(Survivors)
                       ELSE Min(options.to, Len(Survivors)))
    /\ (options.to = 0 \/ Len(Survivors) <= options.to) =>
         context.records = Len(Survivors)

\* a run of MaxLines records ended with the window from MaxWindow to
\* MaxWindow: one record emitted, those before it counted
C10_Witness ==
  /\ options.from = MaxWindow /\ options.to = MaxWindow
  /\ phase = "ended"
  /\ Len(Survivors) = MaxLines
  /\ pushed = <<Survivors[MaxWindow]>>
  /\ context.records >= MaxWindow

\* C11: once the records counter has exceeded to, the run consumes nothing
\* more: in every later step no line is decoded, on_record and on_skip are
\* not called, no counter changes, no record is emitted, no error is raised.
C11_StopAfterTo ==
  [][(options.to # 0 /\ context.records > options.to) =>
       /\ decodeCalls' = decodeCalls
       /\ recordCalls' = recordCalls
       /\ skipCalls' = skipCalls
       /\ context' = context
       /\ pushed' = pushed
       /\ error' = error]_vars

\* the line window, with or without the record limit to = 1, strict or
\* not, on valid and invalid lines: to_line is beyond the line on which the
\* record limit is passed
LineWindowOptions ==
  {[DefaultOptions EXCEPT !.strict = st, !.to = t, !.from_line = fl, !.to_line = tl] :
     st \in BOOLEAN, t \in {0, 1}, fl \in {0, MaxWindow}, tl \in {0, MaxWindow + 1}}

LineWindowBodies == {<<"1">>, <<"{">>}

InitLineWin ==
  \E o \in LineWindowOptions, text \in Inputs(LineWindowBodies, MaxLines + 1) :
    Start(o, text)

SpecLineWin == InitLineWin /\ [][Next]_vars

\* a is b with some of its elements left out, from a[i] and b[j] on
RECURSIVE IsSubSeqFrom(_, _, _, _)
IsSubSeqFrom(a, b, i, j) ==
  IF i > Len(a) THEN TRUE
  ELSE IF j > Len(b) THEN FALSE
  ELSE IF a[i] = b[j] THEN IsSubSeqFrom(a, b, i + 1, j + 1)
  ELSE IsSubSeqFrom(a, b, i, j + 1)

\* the texts of the lines of L inside the line window that the decoder can
\* be given: those within maxLineLength and not skipped as blank, trimmed
RECURSIVE DecodableFrom(_, _, _)
DecodableFrom(o, L, i) ==
  IF i > Len(L) THEN <<>>
  ELSE (IF InLineWindow(o, i) /\ ~IsTooLong(o, L[i]) /\ ~IsBlankSkipped(o, L[i])
          THEN <<Normalized(o, L[i])>> ELSE <<>>)
       \o DecodableFrom(o, L, i + 1)

\* C12: a line whose place in the input is below from_line or above to_line
\* is never decoded: the texts handed to JSON.parse are texts of lines inside
\* the line window, in order, and an error is raised only when a line inside
\* the window offends.
C12_OutsideLinesNotDecoded ==
  /\ IsSubSeqFrom(decodeCalls, DecodableFrom(options, LinesSeen, 1), 1, 1)
  /\ error # "none" => FirstOffender(options, LinesSeen) # 0

\* the options but for the line and record windows
Unwindowed(o) == [o EXCEPT !.from = 0, !.to = 0, !.from_line = 0, !.to_line = 0]

\* the records the lines handled so far yield when no option reshapes or
\* filters them: the values, other than null, of the valid lines inside the
\* line window
Yielded == NonNull(Decoded(options, Handled))

\* C13: the records counter counts once each line that yields a record and
\* no other line: it never exceeds the number of such lines handled so far,
\* and equals it as long as the record limit to has not been passed.
C13_RecordsCounter ==
  IsPlain(Unwindowed(options)) =>
    /\ context.records <= Len(Yielded)
    /\ (options.to = 0 \/ context.records <= options.to) =>
         context.records = Len(Yielded)

\* the output shaping options info, raw and objname ('a'), with and without
\* skipEmptyLines, on an object with the member a, a number after a space
\* and a number: every line is valid and yields a record
K_a == <<"a">>

ShapeOptions ==
  {[DefaultOptions EXCEPT !.info = i, !.raw = r, !.objname = k, !.skipEmptyLines = se] :
     i \in BOOLEAN, r \in BOOLEAN, k \in {<<>>, K_a}, se \in BOOLEAN}

ShapeBodies == {<<"{", QUOTE, "a", QUOTE, ":", "1", "}">>, <<SP, "2">>, <<"3">>}

InitShape ==
  \E o \in ShapeOptions, text \in Inputs(ShapeBodies, MaxLines) : Start(o, text)

SpecShape == InitShape /\ [][Next]_vars

\* C14: with info the info object of the n-th counted record has counted
\* that record: info.records = n, and info.lines is the place of its line
\* (here every line yields a record, so the n-th record is of the n-th line).
C14_InfoCountsRecord ==
  (options.info /\ options.objname = <<>>) =>
    \A n \in 1..Len(pushed) :
      /\ Member(Member(pushed[n], K_info), K_records) = Num(n)
      /\ Member(Member(pushed[n], K_info), K_lines) = Num(n)
      /\ Member(Member(pushed[n], K_info), K_invalid) = Num(0)

\* C15: when the record has a truthy member named by objname, the value
\* emitted is the object with the one member named by that member's value,
\* and its value is the enriched output: with info or raw it is the object
\* of info, raw and record.
C15_KeyedKeepsEnrichment ==
  (options.objname # <<>> /\ (options.info \/ options.raw)) =>
    \A n \in 1..Len(pushed) :
      (/\ IsObject(Decoded(options, LinesSeen)[n])
       /\ Truthy(Member(Decoded(options, LinesSeen)[n], options.objname))) =>
        /\ IsObject(pushed[n])
        /\ pushed[n].k
             = <<JSString(Member(Decoded(options, LinesSeen)[n], options.objname))>>
        /\ Member(pushed[n].e[1], K_record) = Decoded(options, LinesSeen)[n]
        /\ options.info => Member(pushed[n].e[1], K_info) # Undefined
        /\ options.raw => Member(pushed[n].e[1], K_raw) # Undefined

\* C16: with raw the raw member of the n-th emitted record is the text of
\* its line as it is in the input, leading and trailing whitespace included,
\* whatever skipEmptyLines is.
C16_RawIsOriginalLine ==
  (options.raw /\ options.objname = <<>>) =>
    \A n \in 1..Len(pushed) : Member(pushed[n], K_raw) = Str(LinesSeen[n])

\* cast unset, true or a function that returns its value, with cast_date
\* unset, true or a function that returns 'x', on arrays of one leaf: the
\* strings '5', ' ', 'T', '', 'true' and '1999', and true, null and 7
CastOptions ==
  {[DefaultOptions EXCEPT !.cast = c, !.cast_date = d] :
     c \in {"none", "true", "same"}, d \in {"none", "true", "tag"}}

CastBodies ==
  {<<"[", QUOTE, "5", QUOTE, "]">>,
   <<"[", QUOTE, SP, QUOTE, "]">>,
   <<"[", QUOTE, "T", QUOTE, "]">>,
   <<"[", QUOTE, QUOTE, "]">>,
   <<"[", QUOTE, "t", "r", "u", "e", QUOTE, "]">>,
   <<"[", QUOTE, "1", "9", "9", "9", QUOTE, "]">>,
   <<"[", "t", "r", "u", "e", "]">>,
   <<"[", "n", "u", "l", "l", "]">>,
   <<"[", "7", "]">>}

InitCast ==
  \E o \in CastOptions, text \in Inputs(CastBodies, MaxLines - 1) : Start(o, text)

SpecCast == InitCast /\ [][Next]_vars

\* a numeric string: here the decimal digits of a non-negative integer
IsNumericText(s) == s # <<>> /\ \A i \in 1..Len(s) : IsDigit(s[i])

\* the table of cast: true for a string leaf
CastTable(v) ==
  IF v.s = W_true THEN Bool(TRUE)
  ELSE IF v.s = W_false THEN Bool(FALSE)
  ELSE IF v.s = W_null THEN Null
  ELSE IF v.s = W_undefined THEN Undefined
  ELSE IF IsNumericText(v.s) THEN Num(ParseDigits(v.s, 1, 0).val.n)
  ELSE v

\* C17: with cast: true every first-level string leaf is converted by the
\* table: 'true', 'false', 'null', 'undefined' and numeric strings to their
\* values, every other string unchanged.
C17_CastTable ==
  (options.cast = "true" /\ options.cast_date = "none") =>
    \A n \in 1..Len(pushed) :
      \A i \in 1..Len(Decoded(options, LinesSeen)[n].e) :
        Decoded(options, LinesSeen)[n].e[i].t = "string" =>
          pushed[n].e[i] = CastTable(Decoded(options, LinesSeen)[n].e[i])

\* C18: with cast: true a first-level leaf that is not a string (a number,
\* a boolean, null, an array, an object) is emitted unchanged.
C18_CastStringsOnly ==
  (options.cast = "true" /\ options.cast_date = "none") =>
    \A n \in 1..Len(pushed) :
      \A i \in 1..Len(Decoded(options, LinesSeen)[n].e) :
        Decoded(options, LinesSeen)[n].e[i].t # "string" =>
          pushed[n].e[i] = Decoded(options, LinesSeen)[n].e[i]

\* C19: when cast_date is configured it is applied to every leaf after the
\* cast step, to the value the cast step gave: the leaf emitted is cast_date
\* of what the same options without cast_date make of the leaf.
C19_CastDateAfterCast ==
  options.cast_date # "none" =>
    \A n \in 1..Len(pushed) :
      \A i \in 1..Len(Decoded(options, LinesSeen)[n].e) :
        pushed[n].e[i]
          = CastDate(options,
              CastValue([options EXCEPT !.cast_date = "none"],
                        Decoded(options, LinesSeen)[n].e[i], context),
              context)

\* on_record returning null on odd lines or wrapping the record in an
\* array, with and without columns: true, the empty-value skip, strict and
\* the record limit to = 1, on an array, an array of an empty string,
\* invalid JSON and null
HookOptions ==
  {[DefaultOptions EXCEPT !.on_record = fn, !.columns = [kind |-> kd, names |-> <<>>],
                          !.skip_records_with_empty_values = sk, !.strict = st, !.to = t] :
     fn \in {"evenLines", "wrap"}, kd \in {"none", "true"}, sk \in BOOLEAN,
     st \in BOOLEAN, t \in {0, 1}}

HookBodies ==
  {<<"[", "1", "]">>, <<"[", QUOTE, QUOTE, "]">>, <<"{">>, <<"n", "u", "l", "l">>}

InitHook ==
  \E o \in HookOptions, text \in Inputs(HookBodies, MaxLines) : Start(o, text)

SpecHook == InitHook /\ [][Next]_vars

\* the records on_record is due, from the texts decoded so far: the decoded
\* values but the header that columns: true consumes, each mapped to the
\* header names, but those the empty-value skip drops (no cast is set)
RECURSIVE HookedFrom(_, _, _)
HookedFrom(texts, i, headerDone) ==
  IF i > Len(texts) THEN <<>>
  ELSE IF ~JSONParse(texts[i]).ok THEN HookedFrom(texts, i + 1, headerDone)
  ELSE IF options.columns.kind = "true" /\ ~headerDone THEN HookedFrom(texts, i + 1, TRUE)
  ELSE LET record == MapColumns(options, [headerColumns |-> headerColumns],
                                JSONParse(texts[i]).val)
       IN (IF options.skip_records_with_empty_values /\ IsEmptyRecord(record)
             THEN <<>> ELSE <<record>>)
          \o HookedFrom(texts, i + 1, headerDone)

\* what on_record returned to its calls, and the returns that keep a record
HookResults ==
  [i \in 1..Len(recordCalls) |->
     OnRecordHook(options.on_record, recordCalls[i].record, recordCalls[i].context)]

IsKept(result) == result.t \notin {"null", "undefined"}

HookKept == SelectSeq(HookResults, IsKept)

\* C20: on_record is called once, in line order, for each decoded record
\* that is neither consumed as header nor dropped by the empty-value skip,
\* and each call is over before the next line: the counters it is given
\* count the kept records of the earlier calls.  A null return discards the
\* record, which is neither counted nor emitted; any other return is the
\* record counted and, inside the record window, emitted.
C20_OnRecord ==
  (options.on_record # "none" /\ options.cast = "none" /\ options.cast_date = "none") =>
    /\ [i \in 1..Len(recordCalls) |-> recordCalls[i].record] = HookedFrom(decodeCalls, 1, FALSE)
    /\ \A i \in 1..Len(recordCalls) :
         /\ recordCalls[i].context.records
              = Len(SelectSeq(SubSeq(HookResults, 1, i - 1), IsKept))
         /\ \A j \in 1..(i - 1) :
              recordCalls[j].context.lines < recordCalls[i].context.lines
    /\ context.records = Len(HookKept)
    /\ pushed = SubSeq(HookKept, 1,
                       IF options.to = 0 THEN Len(HookKept)
                       ELSE Min(options.to, Len(HookKept)))

\* a run ended in which on_record was called for two records after a
\* header, returned null for one of them, which was not emitted, and a
\* record for the other, which was
C20_Witness ==
  /\ options.on_record = "evenLines"
  /\ options.columns.kind = "true"
  /\ options.to = 0
  /\ phase = "ended"
  /\ Len(recordCalls) = 2
  /\ Len(decodeCalls) = 3
  /\ Len(HookKept) = 1
  /\ pushed = HookKept

\* skip_records_with_empty_values, with and without cast: true, an on_record
\* that returns the record and the explicit column list ['a'], on an empty
\* array, an empty string, the string 'null', an array of null, an array of
\* an empty string and a number, and a number
EmptyValueOptions ==
  {[DefaultOptions EXCEPT !.skip_records_with_empty_values = TRUE, !.cast = c,
                          !.on_record = fn, !.columns = cols] :
     c \in {"none", "true"}, fn \in {"none", "keep"},
     cols \in {[kind |-> "none", names |-> <<>>], [kind |-> "list", names |-> <<Str(K_a)>>]}}

EmptyValueBodies ==
  {<<"[", "]">>, <<QUOTE, QUOTE>>, <<QUOTE>> \o W_null \o <<QUOTE>>,
   <<"[">> \o W_null \o <<"]">>, <<"[", QUOTE, QUOTE, ",", "1", "]">>, <<"0">>}

InitEmptyValue ==
  \E o \in EmptyValueOptions, text \in Inputs(EmptyValueBodies, MaxLines - 1) : Start(o, text)

SpecEmptyValue == InitEmptyValue /\ [][Next]_vars

\* the first-level leaf values of a record: the elements of an array, the
\* member values of an object, a scalar itself
Leaves(record) == IF IsArray(record) \/ IsObject(record) THEN record.e ELSE <<record>>

\* every first-level leaf value is null, undefined or the empty string
AllLeavesEmpty(record) ==
  \A i \in 1..Len(Leaves(record)) :
    Leaves(record)[i] = Null \/ Leaves(record)[i] = Undefined \/ Leaves(record)[i] = Str(<<>>)

\* the records of the lines handled so far, mapped to the columns and cast
CastRecords ==
  [i \in 1..Len(Decoded(options, Handled)) |->
     CastRecord(options, [context |-> context],
                MapColumns(options, [headerColumns |-> headerColumns],
                           Decoded(options, Handled)[i]))]

KeptRecords == SelectSeq(CastRecords, LAMBDA r : ~AllLeavesEmpty(r))

\* C21: with skip_records_with_empty_values the records emitted, counted
\* and given to on_record are exactly the records with a first-level leaf
\* value, taken after the cast, that is not null, undefined or the empty
\* string; the records all of whose leaf values are such are not emitted,
\* not counted and not given to on_record.
C21_EmptyValueSkip ==
  (options.skip_records_with_empty_values /\ options.columns.kind \in {"none", "list"}
   /\ options.on_record \in {"none", "keep"} /\ IsPlain([options EXCEPT
        !.skip_records_with_empty_values = FALSE, !.cast = "none", !.on_record = "none",
        !.columns = DefaultOptions.columns])) =>
    /\ pushed = KeptRecords
    /\ context.records = Len(KeptRecords)
    /\ options.on_record # "none" =>
         [i \in 1..Len(recordCalls) |-> recordCalls[i].record] = KeptRecords

\* a run ended with cast: true that kept a record with an empty and a
\* non-empty leaf and discarded a record empty only after the cast
C21_Witness ==
  /\ options.skip_records_with_empty_values
  /\ options.cast = "true"
  /\ options.on_record = "keep"
  /\ phase = "ended"
  /\ Len(CastRecords) = 2
  /\ Len(pushed) = 1
  /\ \E i \in 1..2 : CastRecords[i] = Null /\ Decoded(options, Handled)[i] = Str(W_null)
  /\ \E i \in 1..Len(pushed[1].e) : pushed[1].e[i] = Str(<<>>)

\* a line of one value and spaces that is as long as the buffer guard
\* allows a pending line to be
FullTail == [i \in 1..(TinyLimit * BufferFactor) |-> IF i = 1 THEN "1" ELSE SP]

TailBodies == {<<"1">>, <<"{">>, FullTail}

\* every error policy under the limit TinyLimit, on inputs whose last line
\* may fill the buffer guard
InitTail ==
  \E o \in PolicyOptions(TinyLimit), text \in Inputs(TailBodies, MaxLines - 1) :
    Start(o, text)

SpecTail == InitTail /\ [][Next]_vars

\* the run that writes a line terminator as one more chunk before it ends
TerminatedRun == EndAfter(options, Transform(options, Self, <<LF>>))

\* C22: ending the stream on a non-empty pending tail (one that does not end
\* in CR, which a line feed would join as CRLF) emits the records and leaves
\* the counters that writing a line terminator and then ending does.
C22_TailAsLine ==
  [][(phase = "open" /\ phase' # "open" /\ pos' = pos
      /\ buffer # <<>> /\ buffer[Len(buffer)] # CR) =>
       (/\ pushed' = TerminatedRun.pushed
        /\ context' = TerminatedRun.context)]_vars

\* every error policy under the limit TinyLimit, with a driver that goes on
\* writing and ends the stream after an error
SpecOn == InitTail /\ [][NextOn]_vars

SpecBoth == InitHook /\ [][NextBoth]_vars

IsBlank(l) == Trim(l) = <<>>

\* the lines reached so far: under the strict policy those up to the first
\* offending line, otherwise all the lines seen
Reached ==
  IF IsStrictPolicy(options) /\ FirstOffender(options, LinesSeen) # 0
    THEN SubSeq(LinesSeen, 1, FirstOffender(options, LinesSeen))
    ELSE LinesSeen

BlankLines(L) == SelectSeq(L, LAMBDA l : IsBlank(l) /\ ~IsTooLong(options, l))
BlankTexts(T) == SelectSeq(T, IsBlank)
BlankSkips == SelectSeq(skipCalls, LAMBDA c : c.error = "invalid_json" /\ IsBlank(c.line))

K_b == <<"b">>

\* columns as the explicit lists ['a'] and ['a', 'b'], on arrays shorter
\* than, as long as and longer than the list, an object and a number
ListOptions ==
  {[DefaultOptions EXCEPT !.columns = [kind |-> "list", names |-> StrNames(names)]] :
     names \in {<<K_a>>, <<K_a, K_b>>}}

ListBodies ==
  {<<"[", "]">>, <<"[", "1", "]">>, <<"[", "1", ",", "2", ",", "3", "]">>,
   <<"{", QUOTE, "b", QUOTE, ":", "1", "}">>, <<"7">>}

InitList ==
  \E o \in ListOptions, text \in Inputs(ListBodies, MaxLines) : Start(o, text)

SpecList == InitList /\ [][Next]_vars

\* the names of an explicit list of columns
ListNames(o) == [i \in 1..Len(o.columns.names) |-> o.columns.names[i].s]

MaxObjects == 2

ToJSONOptions ==
  {[JSONLToJSONOptions EXCEPT !.maxObjects = mo, !.arrayWrapper = aw, !.arrayName = an] :
     mo \in {Infinity, MaxObjects}, aw \in BOOLEAN, an \in {<<>>, K_a}}

ToJSONBodies == {<<"1">>, <<"{", QUOTE, "b", QUOTE, ":", "2", "}">>, <<"{">>, <<SP>>}

InitToJSON ==
  \E o \in ToJSONOptions, text \in Inputs(ToJSONBodies, MaxLines) :
    StartConverter(o, NewJSONLToJSON, text)

SpecToJSON == InitToJSON /\ [][NextConverter]_vars

\* the lines of the whole input that are not blank, and whether each parses
ObjectLines == SelectSeq(PhysicalLines(WholeInput), LAMBDA l : Trim(l) # <<>>)
AllParse(L) == \A i \in 1..Len(L) : JSONParse(Trim(L[i])).ok

\* C27: JSONLToJSON fails with the maximum object limit error exactly when
\* the input holds more than maxObjects objects: a run over an input of
\* valid lines has failed with it only if the input has more objects than
\* maxObjects, and has ended with an output if it has at most maxObjects.
C27_MaxObjects ==
  (options.kind = "JSONLToJSON" /\ AllParse(ObjectLines)) =>
    /\ converter.error = "max_objects" => Len(ObjectLines) > options.maxObjects
    /\ (phase = "ended" /\ converter.error = "none") => Len(ObjectLines) <= options.maxObjects
    /\ (phase # "open" /\ Len(ObjectLines) <= options.maxObjects) => converter.error = "none"

\* the values of the non-blank lines of the whole input
RECURSIVE ParsedLines(_, _)
ParsedLines(L, i) ==
  IF i > Len(L) THEN <<>> ELSE <<JSONParse(Trim(L[i])).val>> \o ParsedLines(L, i + 1)

\* C28: JSONLToJSON writes nothing while it is fed.  A run that ends has
\* written one output, the JSON text of: the array of the values of all
\* the non-blank lines in order; the object with that array under arrayName
\* when arrayName is set (arrayWrapper being true); and with arrayWrapper
\* false the one value when there is exactly one, the array otherwise.  A
\* run over an input with an invalid line fails, and a failed run has
\* written nothing.
C28_SingleOutput ==
  options.kind = "JSONLToJSON" =>
    /\ phase # "ended" => converter.pushed = <<>>
    /\ (phase # "open" /\ ~AllParse(ObjectLines)) => converter.error # "none"
    /\ phase = "ended" =>
         /\ converter.error = "none"
         /\ Len(converter.pushed) = 1
         /\ JSONParse(converter.pushed[1]).ok
         /\ JSONParse(converter.pushed[1]).val =
              (IF options.arrayWrapper THEN
                 IF options.arrayName # <<>>
                   THEN Obj(<<options.arrayName>>, <<Arr(ParsedLines(ObjectLines, 1))>>)
                   ELSE Arr(ParsedLines(ObjectLines, 1))
               ELSE IF Len(ObjectLines) = 1 THEN ParsedLines(ObjectLines, 1)[1]
               ELSE Arr(ParsedLines(ObjectLines, 1)))

\* a run with arrayWrapper false ended on one object, written alone, after
\* a blank line
C28_Witness ==
  /\ options.kind = "JSONLToJSON"
  /\ ~options.arrayWrapper
  /\ phase = "ended"
  /\ Len(PhysicalLines(WholeInput)) = 2
  /\ converter.pushed = <<<<"{", QUOTE, "b", QUOTE, ":", "2", "}">>>>

\* JSONToJSONL with and without maxObjectSize = MaxObjectSize and the
\* arrayPath 'a', on documents of numbers within the size and beyond it
MaxObjectSize == 1

LongNumber == [i \in 1..(MaxObjectSize + 1) |-> "2"]

ToJSONLOptions ==
  {[JSONToJSONLOptions EXCEPT !.maxObjectSize = ms, !.arrayPath = ap] :
     ms \in {Infinity, MaxObjectSize}, ap \in {<<>>, <<K_a>>}}

Documents ==
  {<<"[", "1", ",">> \o LongNumber \o <<",", "1", "]">>,
   <<"[">> \o LongNumber \o <<",", "1", "]">>,
   <<"[", "1", ",", "1", "]", LF>>,
   <<"1">>,
   LongNumber,
   <<"{", QUOTE, "a", QUOTE, ":", "[", "1", ",">> \o LongNumber \o <<"]", "}">>,
   <<"{", QUOTE, "a", QUOTE, ":", "1", "}">>,
   <<"[">>,
   <<SP>>}

InitToJSONL ==
  \E o \in ToJSONLOptions, text \in Documents : StartConverter(o, NewJSONToJSONL, text)

SpecToJSONL == InitToJSONL /\ [][NextConverter]_vars

\* the objects of the document: the elements of the array at arrayPath, or
\* of the document when it is an array, or the document itself
DocumentItems ==
  IF options.arrayPath # <<>> THEN Member(JSONParse(WholeInput).val, options.arrayPath[1]).e
  ELSE IF IsArray(JSONParse(WholeInput).val) THEN JSONParse(WholeInput).val.e
  ELSE <<JSONParse(WholeInput).val>>

HasItems ==
  /\ JSONParse(WholeInput).ok
  /\ options.arrayPath # <<>> =>
       (IsObject(JSONParse(WholeInput).val)
        /\ IsArray(Member(JSONParse(WholeInput).val, options.arrayPath[1])))

\* the places of the objects whose serialized form is longer than maxObjectSize
Oversized ==
  {i \in 1..Len(DocumentItems) : Len(JSONStringify(DocumentItems[i])) > options.maxObjectSize}

K_r == <<"r">>

\* CSVToJSONL with and without the rootKey 'r', on lines of one field, of
\* two fields and blank lines, the first line naming the columns
CsvOptions == {[CSVToJSONLOptions EXCEPT !.rootKey = rk] : rk \in {<<>>, K_r}}

CsvBodies == {<<"a">>, <<"1">>, <<"x", ",", "y">>, <<SP>>}

InitCsv ==
  \E o \in CsvOptions, text \in Inputs(CsvBodies, MaxLines) :
    StartConverter(o, NewCSVToJSONL, text)

SpecCsv == InitCsv /\ [][NextConverter]_vars

\* C30: with rootKey every line CSVToJSONL writes is the JSON text of an
\* object whose only member is the root key.
C30_RootKeyEveryLine ==
  (options.kind = "CSVToJSONL" /\ options.rootKey # <<>>) =>
    \A i \in 1..Len(converter.pushed) :
      /\ IsObject(JSONParse(SubSeq(converter.pushed[i], 1, Len(converter.pushed[i]) - 1)).val)
      /\ JSONParse(SubSeq(converter.pushed[i], 1, Len(converter.pushed[i]) - 1)).val.k
           = <<options.rootKey>>

----------------------------------------------------------------------------
(* JSONLValidator: validators of every combination of allowEmptyLines,    *)
(* strictMode, maxObjects, a short maxLineLength and a type schema, over   *)
(* texts of valid, invalid, padded, empty and blank lines.                *)

ValidatorOptions ==
  {[JSONLValidatorOptions EXCEPT !.allowEmptyLines = ae, !.strictMode = sm,
                                 !.maxObjects = mo, !.maxLineLength = ml, !.schema = sc] :
     ae \in BOOLEAN, sm \in BOOLEAN, mo \in {Infinity, MaxObjects},
     ml \in {1024 * 1024, TinyLimit}, sc \in {"none", "number"}}

ValidatorBodies == {<<"1">>, <<"{">>, <<>>, <<SP>>, <<SP, "1">>, <<QUOTE, QUOTE>>}

InitValidator ==
  \E o \in ValidatorOptions, text \in Inputs(ValidatorBodies, MaxLines) :
    StartConverter(o, NewJSONLValidator, text)

SpecValidator == InitValidator /\ [][NextConverter]_vars

\* whether validateLine finds nothing wrong with a line of the input
PassesLine(l) == ValidateLine(options, converter, l) = <<>>

\* the result a validator that has ended pushed
Result == converter.pushed[1]

\* C31: with allowEmptyLines, blank lines are not counted: the totalLines
\* of the result is the number of non-blank lines of the input, and every
\* error carries the position of a failing line among the non-blank lines.
C31_BlankLinesUncounted ==
  (options.kind = "JSONLValidator" /\ options.allowEmptyLines /\ phase = "ended") =>
    /\ Result.totalLines = Len(ObjectLines)
    /\ \A i \in 1..Len(Result.errors) :
         /\ Result.errors[i].line \in 1..Len(ObjectLines)
         /\ ~PassesLine(ObjectLines[Result.errors[i].line])

\* C32: a validator with maxObjects = N fails with the maximum object limit
\* error exactly when the input holds more than N non-blank lines, blank
\* lines not counting toward the limit, and a failed run pushes no result.
C32_ValidatorMaxObjects ==
  options.kind = "JSONLValidator" =>
    /\ converter.error = "max_objects" =>
         (Len(ObjectLines) > options.maxObjects /\ converter.pushed = <<>>)
    /\ phase = "ended" => Len(ObjectLines) <= options.maxObjects

\* the complete lines of the input that are blank
BlankComplete == SelectSeq(CompleteLines(WholeInput), LAMBDA l : Trim(l) = <<>>)

----------------------------------------------------------------------------
(* Functions that write to their context: lenient streams whose cast,     *)
(* cast_date or on_record function is "mark", over texts of numbers,      *)
(* strings, arrays and an invalid line.                                   *)

MarkOptions ==
  {[DefaultOptions EXCEPT !.strict = FALSE, !.cast = c, !.cast_date = cd, !.on_record = fn] :
     c \in {"none", "true", "mark"}, cd \in {"none", "mark"}, fn \in {"none", "mark"}}

MarkBodies ==
  {<<"1">>, <<QUOTE, "a", QUOTE>>, <<"[", "1", ",", "2", "]">>, <<"[", "]">>, <<"{">>}

InitMark ==
  \E o \in MarkOptions, text \in Inputs(MarkBodies, MaxLines) : Start(o, text)

SpecMark == InitMark /\ [][Next]_vars

\* C35: a function of the caller cannot alter the counters through the
\* context it is handed: whatever on_record, cast and cast_date do to it,
\* lines is the number of lines seen, invalid_field_length the number of
\* too long lines among them and records the number of records pushed.
C35_HooksLeaveContext ==
  /\ context.lines = Len(LinesSeen)
  /\ context.invalid_field_length = Len(TooLongLines(options, LinesSeen))
  /\ context.records = Len(pushed)

----------------------------------------------------------------------------
(* on_skip: streams with on_skip under every other error policy, with and *)
(* without skipEmptyLines, over texts of valid, invalid, padded invalid    *)
(* and too long lines.                                                    *)

SkipOptions ==
  {[DefaultOptions EXCEPT !.on_skip = TRUE, !.strict = st, !.skipEmptyLines = se,
                          !.maxLineLength = ShortLimit] :
     st \in BOOLEAN, se \in BOOLEAN}

SkipBodies ==
  {<<"1">>, <<"{">>, <<SP, "{">>, <<"{", SP>>, [i \in 1..(ShortLimit + 1) |-> "1"]}

InitSkip ==
  \E o \in SkipOptions, text \in Inputs(SkipBodies, MaxLines) : Start(o, text)

SpecSkip == InitSkip /\ [][Next]_vars

\* C36: on_skip is handed the raw offending line, for a too long line and
\* for a line of invalid JSON alike: the lines of its calls are the
\* offending lines seen, in order, as they stand in the input, whitespace
\* untrimmed.
C36_SkipRawLine ==
  options.on_skip =>
    [i \in 1..Len(skipCalls) |-> skipCalls[i].line]
      = SelectSeq(LinesSeen, LAMBDA l : Offends(options, l))

----------------------------------------------------------------------------
(* Bytes: default and lenient streams over texts whose lines are a      *)
(* number or a string of one two-byte character, written in chunks that  *)
(* may end between the two bytes.                                         *)

ByteOptions == {[DefaultOptions EXCEPT !.strict = st] : st \in BOOLEAN}

ByteBodies == {<<"1">>, <<QUOTE, LEAD, CONT, QUOTE>>}

InitByte ==
  \E o \in ByteOptions, text \in Inputs(ByteBodies, MaxLines) : Start(o, text)

SpecByte == InitByte /\ [][Next]_vars

\* the text before the pending tail: all that was received up to and
\* including the last line feed
BeforeTail == SubSeq(Received, 1, Len(Received) - Len(buffer))

\* C33: after every write that raised no error the pending tail holds no
\* line feed and is the suffix of the text received so far that follows
\* the last line terminator.
C33_PendingTail ==
  (phase = "open" /\ error = "none") =>
    /\ ~Includes(buffer, LF)
    /\ Len(buffer) <= Len(Received)
    /\ Received = BeforeTail \o buffer
    /\ BeforeTail = <<>> \/ BeforeTail[Len(BeforeTail)] = LF

----------------------------------------------------------------------------
(* Header learning: streams with columns: true or a columns function,     *)
(* strict or lenient, over texts of arrays, a number and an invalid line. *)

HeaderOptions ==
  {[DefaultOptions EXCEPT !.columns = [kind |-> kd, names |-> <<>>], !.strict = st] :
     kd \in {"true", "fn"}, st \in BOOLEAN}

HeaderBodies == {<<"[", QUOTE, "a", QUOTE, "]">>, <<"[", "2", "]">>, <<"7">>, <<"{">>}

InitHeader ==
  \E o \in HeaderOptions, text \in Inputs(HeaderBodies, MaxLines) : Start(o, text)

SpecHeader == InitHeader /\ [][Next]_vars

\* the values decoded so far
DecodedSoFar == Decoded(options, Handled)

\* with the values decoded so far, the header is learned exactly if there is
\* one, a columns function has been called with the first of them and with
\* nothing else, and no record has been pushed for it
HeaderLearned(decoded, processed, calls, out) ==
  /\ processed = (decoded # <<>>)
  /\ calls = (IF options.columns.kind = "fn" /\ decoded # <<>> THEN <<decoded[1]>> ELSE <<>>)
  /\ decoded = <<>> => out = <<>>
  /\ decoded # <<>> => Len(out) <= Len(decoded) - 1

\* the values of the texts handed to JSON.parse that it accepted
ParsedCalls(texts) ==
  [i \in 1..Len(SelectSeq(texts, LAMBDA t : JSONParse(t).ok)) |->
     JSONParse(SelectSeq(texts, LAMBDA t : JSONParse(t).ok)[i]).val]

\* C34: the header is learned at most once.  Once headerProcessed is true
\* it stays true and headerColumns stays as it is; a columns function is
\* called at most once, with the first decoded value; and that value is
\* consumed, so that the records pushed come from the later values only.
C34_HeaderOnce ==
  [][/\ headerProcessed =>
          (headerProcessed' /\ headerColumns' = headerColumns /\ columnsCalls' = columnsCalls)
     /\ HeaderLearned(DecodedSoFar, headerProcessed, columnsCalls, pushed)
     /\ HeaderLearned(ParsedCalls(decodeCalls'), headerProcessed', columnsCalls', pushed')]_vars

\* a columns function has been called and a later value has been pushed
C34_Witness ==
  /\ options.columns.kind = "fn"
  /\ headerProcessed
  /\ Len(columnsCalls) = 1
  /\ IsArray(columnsCalls[1])
  /\ Len(pushed) = 2

----------------------------------------------------------------------------
(* Order of the output *)

\* out is vals with some of its elements left out: from index i of out and
\* index j of vals on
RECURSIVE EmbedsFrom(_, _, _, _)
EmbedsFrom(out, vals, i, j) ==
  IF i > Len(out) THEN TRUE
  ELSE IF j > Len(vals) THEN FALSE
  ELSE IF out[i] = vals[j] THEN EmbedsFrom(out, vals, i + 1, j + 1)
  ELSE EmbedsFrom(out, vals, i, j + 1)

\* C37: every line gives at most one record and the records are pushed in
\* the order of their lines, whatever the chunks and the last line at the
\* end included: the records pushed are the values of the lines seen, in
\* order, with some of them left out.
C37_OutputOrder == EmbedsFrom(pushed, Decoded(options, LinesSeen), 1, 1)

\* a stream has ended with the records of three lines, the last of them
\* unterminated, and the first two different
C37_Witness ==
  /\ phase = "ended"
  /\ PendingTail(WholeInput) # <<>>
  /\ Len(pushed) = MaxLines
  /\ pushed[1] # pushed[2]

\* C38: the counters are natural numbers that never decrease, records and
\* invalid_field_length together never exceed lines, and the records
\* pushed never outnumber records, in every state a run goes through.
C38_Counters ==
  [][/\ context'.lines >= context.lines
     /\ context'.records >= context.records
     /\ context'.invalid_field_length >= context.invalid_field_length
     /\ context.lines >= 0 /\ context.records >= 0 /\ context.invalid_field_length >= 0
     /\ context'.records + context'.invalid_field_length <= context'.lines
     /\ Len(pushed') <= context'.records]_vars
====
